---- MODULE Spec2Model ----
(***************************************************************************)
(* Formula Optimization & Stock-Solution Planning Engine                   *)
(* (scripts/fertilizer-core.js with the catalog of fertilizer-data.js).    *)
(*                                                                         *)
(* Units.  Weight percentages of the catalog are held in hundredths of a   *)
(* percent (9.86 % is 986).  Doses are held in hundredths of a gram per    *)
(* litre (1 g/L is 100).  EC values are held in tenths of a mS/cm, dosing  *)
(* volumes in tenths of a mL/L, relative errors in thousandths.            *)
(***************************************************************************)
EXTENDS Integers, Sequences, FiniteSets, TLC

(***************************************************************************)
(* Chemistry reference data (fertilizer-data.js)                           *)
(***************************************************************************)
DEFAULT_SOLUBILITY_GL == 200

FERTILIZERS ==
  <<
     [id |-> "calcium_nitrate_calcinit_typical", solubility_gL |-> 1290,
      pct |-> [N_total |-> 1550, N_NO3 |-> 1440, N_NH4 |-> 110, N_Urea |-> 0, P |-> 0, P2O5 |-> 0, K |-> 0, K2O |-> 0, Ca |-> 1900, CaO |-> 0, Mg |-> 0, MgO |-> 0, S |-> 0, SO3 |-> 0, Si |-> 0]],
     [id |-> "hydrospeed_cab_max", solubility_gL |-> 1290,
      pct |-> [N_total |-> 1500, N_NO3 |-> 1430, N_NH4 |-> 70, N_Urea |-> 0, P |-> 0, P2O5 |-> 0, K |-> 0, K2O |-> 0, Ca |-> 1930, CaO |-> 0, Mg |-> 0, MgO |-> 0, S |-> 0, SO3 |-> 0, Si |-> 0]],
     [id |-> "potassium_nitrate_typical", solubility_gL |-> 320,
      pct |-> [N_total |-> 1370, N_NO3 |-> 1370, N_NH4 |-> 0, N_Urea |-> 0, P |-> 0, P2O5 |-> 0, K |-> 0, K2O |-> 4630, Ca |-> 0, CaO |-> 0, Mg |-> 0, MgO |-> 0, S |-> 0, SO3 |-> 0, Si |-> 0]],
     [id |-> "map_typical", solubility_gL |-> 370,
      pct |-> [N_total |-> 1200, N_NO3 |-> 0, N_NH4 |-> 1200, N_Urea |-> 0, P |-> 0, P2O5 |-> 6100, K |-> 0, K2O |-> 0, Ca |-> 0, CaO |-> 0, Mg |-> 0, MgO |-> 0, S |-> 0, SO3 |-> 0, Si |-> 0]],
     [id |-> "mkp_typical", solubility_gL |-> 230,
      pct |-> [N_total |-> 0, N_NO3 |-> 0, N_NH4 |-> 0, N_Urea |-> 0, P |-> 0, P2O5 |-> 5200, K |-> 0, K2O |-> 3400, Ca |-> 0, CaO |-> 0, Mg |-> 0, MgO |-> 0, S |-> 0, SO3 |-> 0, Si |-> 0]],
     [id |-> "dap_common", solubility_gL |-> 580,
      pct |-> [N_total |-> 1800, N_NO3 |-> 0, N_NH4 |-> 1800, N_Urea |-> 0, P |-> 0, P2O5 |-> 4600, K |-> 0, K2O |-> 0, Ca |-> 0, CaO |-> 0, Mg |-> 0, MgO |-> 0, S |-> 0, SO3 |-> 0, Si |-> 0]],
     [id |-> "ssp_common", solubility_gL |-> 20,
      pct |-> [N_total |-> 0, N_NO3 |-> 0, N_NH4 |-> 0, N_Urea |-> 0, P |-> 0, P2O5 |-> 1600, K |-> 0, K2O |-> 0, Ca |-> 2000, CaO |-> 0, Mg |-> 0, MgO |-> 0, S |-> 1200, SO3 |-> 0, Si |-> 0]],
     [id |-> "urea_common", solubility_gL |-> 1080,
      pct |-> [N_total |-> 4600, N_NO3 |-> 0, N_NH4 |-> 0, N_Urea |-> 4600, P |-> 0, P2O5 |-> 0, K |-> 0, K2O |-> 0, Ca |-> 0, CaO |-> 0, Mg |-> 0, MgO |-> 0, S |-> 0, SO3 |-> 0, Si |-> 0]],
     [id |-> "ammonium_sulfate_common", solubility_gL |-> 750,
      pct |-> [N_total |-> 2100, N_NO3 |-> 0, N_NH4 |-> 2100, N_Urea |-> 0, P |-> 0, P2O5 |-> 0, K |-> 0, K2O |-> 0, Ca |-> 0, CaO |-> 0, Mg |-> 0, MgO |-> 0, S |-> 2400, SO3 |-> 0, Si |-> 0]],
     [id |-> "ammonium_nitrate_common", solubility_gL |-> 1900,
      pct |-> [N_total |-> 3400, N_NO3 |-> 1700, N_NH4 |-> 1700, N_Urea |-> 0, P |-> 0, P2O5 |-> 0, K |-> 0, K2O |-> 0, Ca |-> 0, CaO |-> 0, Mg |-> 0, MgO |-> 0, S |-> 0, SO3 |-> 0, Si |-> 0]],
     [id |-> "magnesium_sulfate_heptahydrate_common", solubility_gL |-> 710,
      pct |-> [N_total |-> 0, N_NO3 |-> 0, N_NH4 |-> 0, N_Urea |-> 0, P |-> 0, P2O5 |-> 0, K |-> 0, K2O |-> 0, Ca |-> 0, CaO |-> 0, Mg |-> 986, MgO |-> 0, S |-> 1300, SO3 |-> 0, Si |-> 0]],
     [id |-> "magnesium_sulfate_16mgo", solubility_gL |-> 710,
      pct |-> [N_total |-> 0, N_NO3 |-> 0, N_NH4 |-> 0, N_Urea |-> 0, P |-> 0, P2O5 |-> 0, K |-> 0, K2O |-> 0, Ca |-> 0, CaO |-> 0, Mg |-> 960, MgO |-> 1600, S |-> 1300, SO3 |-> 0, Si |-> 0]],
     [id |-> "magnesium_nitrate_hexahydrate_typical", solubility_gL |-> 420,
      pct |-> [N_total |-> 1090, N_NO3 |-> 1090, N_NH4 |-> 0, N_Urea |-> 0, P |-> 0, P2O5 |-> 0, K |-> 0, K2O |-> 0, Ca |-> 0, CaO |-> 0, Mg |-> 950, MgO |-> 0, S |-> 0, SO3 |-> 0, Si |-> 0]],
     [id |-> "potassium_sulfate_common", solubility_gL |-> 120,
      pct |-> [N_total |-> 0, N_NO3 |-> 0, N_NH4 |-> 0, N_Urea |-> 0, P |-> 0, P2O5 |-> 0, K |-> 0, K2O |-> 5000, Ca |-> 0, CaO |-> 0, Mg |-> 0, MgO |-> 0, S |-> 1700, SO3 |-> 0, Si |-> 0]],
     [id |-> "potassium_chloride_common", solubility_gL |-> 340,
      pct |-> [N_total |-> 0, N_NO3 |-> 0, N_NH4 |-> 0, N_Urea |-> 0, P |-> 0, P2O5 |-> 0, K |-> 0, K2O |-> 6000, Ca |-> 0, CaO |-> 0, Mg |-> 0, MgO |-> 0, S |-> 0, SO3 |-> 0, Si |-> 0]],
     [id |-> "calcium_chloride_dihydrate_common", solubility_gL |-> 745,
      pct |-> [N_total |-> 0, N_NO3 |-> 0, N_NH4 |-> 0, N_Urea |-> 0, P |-> 0, P2O5 |-> 0, K |-> 0, K2O |-> 0, Ca |-> 2720, CaO |-> 0, Mg |-> 0, MgO |-> 0, S |-> 0, SO3 |-> 0, Si |-> 0]],
     [id |-> "langbeinite_common", solubility_gL |-> 240,
      pct |-> [N_total |-> 0, N_NO3 |-> 0, N_NH4 |-> 0, N_Urea |-> 0, P |-> 0, P2O5 |-> 0, K |-> 0, K2O |-> 2200, Ca |-> 0, CaO |-> 0, Mg |-> 1100, MgO |-> 0, S |-> 2200, SO3 |-> 0, Si |-> 0]],
     [id |-> "potassium_schoenite", solubility_gL |-> 220,
      pct |-> [N_total |-> 0, N_NO3 |-> 0, N_NH4 |-> 0, N_Urea |-> 0, P |-> 0, P2O5 |-> 0, K |-> 0, K2O |-> 2300, Ca |-> 0, CaO |-> 0, Mg |-> 0, MgO |-> 1100, S |-> 1590, SO3 |-> 0, Si |-> 0]],
     [id |-> "uan32_solution_typical", solubility_gL |-> 1000,
      pct |-> [N_total |-> 3200, N_NO3 |-> 800, N_NH4 |-> 800, N_Urea |-> 1600, P |-> 0, P2O5 |-> 0, K |-> 0, K2O |-> 0, Ca |-> 0, CaO |-> 0, Mg |-> 0, MgO |-> 0, S |-> 0, SO3 |-> 0, Si |-> 0]],
     [id |-> "ammonium_thiosulfate_common", solubility_gL |-> 1000,
      pct |-> [N_total |-> 1200, N_NO3 |-> 0, N_NH4 |-> 1200, N_Urea |-> 0, P |-> 0, P2O5 |-> 0, K |-> 0, K2O |-> 0, Ca |-> 0, CaO |-> 0, Mg |-> 0, MgO |-> 0, S |-> 2600, SO3 |-> 0, Si |-> 0]],
     [id |-> "potassium_thiosulfate_common", solubility_gL |-> 1000,
      pct |-> [N_total |-> 0, N_NO3 |-> 0, N_NH4 |-> 0, N_Urea |-> 0, P |-> 0, P2O5 |-> 0, K |-> 0, K2O |-> 2500, Ca |-> 0, CaO |-> 0, Mg |-> 0, MgO |-> 0, S |-> 1700, SO3 |-> 0, Si |-> 0]],
     [id |-> "fe_edta_13", solubility_gL |-> 100,
      pct |-> [N_total |-> 0, N_NO3 |-> 0, N_NH4 |-> 0, N_Urea |-> 0, P |-> 0, P2O5 |-> 0, K |-> 0, K2O |-> 0, Ca |-> 0, CaO |-> 0, Mg |-> 0, MgO |-> 0, S |-> 0, SO3 |-> 0, Si |-> 0]],
     [id |-> "boric_acid_common", solubility_gL |-> 50,
      pct |-> [N_total |-> 0, N_NO3 |-> 0, N_NH4 |-> 0, N_Urea |-> 0, P |-> 0, P2O5 |-> 0, K |-> 0, K2O |-> 0, Ca |-> 0, CaO |-> 0, Mg |-> 0, MgO |-> 0, S |-> 0, SO3 |-> 0, Si |-> 0]],
     [id |-> "zinc_sulfate_heptahydrate_common", solubility_gL |-> 580,
      pct |-> [N_total |-> 0, N_NO3 |-> 0, N_NH4 |-> 0, N_Urea |-> 0, P |-> 0, P2O5 |-> 0, K |-> 0, K2O |-> 0, Ca |-> 0, CaO |-> 0, Mg |-> 0, MgO |-> 0, S |-> 1120, SO3 |-> 0, Si |-> 0]],
     [id |-> "nitric_acid_38", solubility_gL |-> 1000,
      pct |-> [N_total |-> 840, N_NO3 |-> 840, N_NH4 |-> 0, N_Urea |-> 0, P |-> 0, P2O5 |-> 0, K |-> 0, K2O |-> 0, Ca |-> 0, CaO |-> 0, Mg |-> 0, MgO |-> 0, S |-> 0, SO3 |-> 0, Si |-> 0]],
     [id |-> "nitric_acid_60", solubility_gL |-> 1000,
      pct |-> [N_total |-> 1330, N_NO3 |-> 1330, N_NH4 |-> 0, N_Urea |-> 0, P |-> 0, P2O5 |-> 0, K |-> 0, K2O |-> 0, Ca |-> 0, CaO |-> 0, Mg |-> 0, MgO |-> 0, S |-> 0, SO3 |-> 0, Si |-> 0]],
     [id |-> "phosphoric_acid_49", solubility_gL |-> 1000,
      pct |-> [N_total |-> 0, N_NO3 |-> 0, N_NH4 |-> 0, N_Urea |-> 0, P |-> 1860, P2O5 |-> 0, K |-> 0, K2O |-> 0, Ca |-> 0, CaO |-> 0, Mg |-> 0, MgO |-> 0, S |-> 0, SO3 |-> 0, Si |-> 0]],
     [id |-> "potassium_bicarbonate", solubility_gL |-> 330,
      pct |-> [N_total |-> 0, N_NO3 |-> 0, N_NH4 |-> 0, N_Urea |-> 0, P |-> 0, P2O5 |-> 0, K |-> 3900, K2O |-> 0, Ca |-> 0, CaO |-> 0, Mg |-> 0, MgO |-> 0, S |-> 0, SO3 |-> 0, Si |-> 0]],
     [id |-> "ammonium_nitrate_liquid", solubility_gL |-> 1000,
      pct |-> [N_total |-> 1800, N_NO3 |-> 900, N_NH4 |-> 900, N_Urea |-> 0, P |-> 0, P2O5 |-> 0, K |-> 0, K2O |-> 0, Ca |-> 0, CaO |-> 0, Mg |-> 0, MgO |-> 0, S |-> 0, SO3 |-> 0, Si |-> 0]],
     [id |-> "urea_phosphate", solubility_gL |-> 440,
      pct |-> [N_total |-> 1750, N_NO3 |-> 0, N_NH4 |-> 0, N_Urea |-> 1750, P |-> 1960, P2O5 |-> 0, K |-> 0, K2O |-> 0, Ca |-> 0, CaO |-> 0, Mg |-> 0, MgO |-> 0, S |-> 0, SO3 |-> 0, Si |-> 0]],
     [id |-> "calcium_nitrate_4h2o", solubility_gL |-> 1290,
      pct |-> [N_total |-> 1150, N_NO3 |-> 1150, N_NH4 |-> 0, N_Urea |-> 0, P |-> 0, P2O5 |-> 0, K |-> 0, K2O |-> 0, Ca |-> 1650, CaO |-> 0, Mg |-> 0, MgO |-> 0, S |-> 0, SO3 |-> 0, Si |-> 0]],
     [id |-> "calcium_nitrate_anhydrous", solubility_gL |-> 1290,
      pct |-> [N_total |-> 1550, N_NO3 |-> 1550, N_NH4 |-> 0, N_Urea |-> 0, P |-> 0, P2O5 |-> 0, K |-> 0, K2O |-> 0, Ca |-> 1850, CaO |-> 0, Mg |-> 0, MgO |-> 0, S |-> 0, SO3 |-> 0, Si |-> 0]],
     [id |-> "calcium_nitrate_liquid", solubility_gL |-> 1000,
      pct |-> [N_total |-> 870, N_NO3 |-> 870, N_NH4 |-> 0, N_Urea |-> 0, P |-> 0, P2O5 |-> 0, K |-> 0, K2O |-> 0, Ca |-> 1250, CaO |-> 0, Mg |-> 0, MgO |-> 0, S |-> 0, SO3 |-> 0, Si |-> 0]],
     [id |-> "calcium_chloride_solid", solubility_gL |-> 745,
      pct |-> [N_total |-> 0, N_NO3 |-> 0, N_NH4 |-> 0, N_Urea |-> 0, P |-> 0, P2O5 |-> 0, K |-> 0, K2O |-> 0, Ca |-> 3600, CaO |-> 0, Mg |-> 0, MgO |-> 0, S |-> 0, SO3 |-> 0, Si |-> 0]],
     [id |-> "calcium_chloride_liquid", solubility_gL |-> 1000,
      pct |-> [N_total |-> 0, N_NO3 |-> 0, N_NH4 |-> 0, N_Urea |-> 0, P |-> 0, P2O5 |-> 0, K |-> 0, K2O |-> 0, Ca |-> 1180, CaO |-> 0, Mg |-> 0, MgO |-> 0, S |-> 0, SO3 |-> 0, Si |-> 0]],
     [id |-> "magnesium_sulfate_anhydrous", solubility_gL |-> 350,
      pct |-> [N_total |-> 0, N_NO3 |-> 0, N_NH4 |-> 0, N_Urea |-> 0, P |-> 0, P2O5 |-> 0, K |-> 0, K2O |-> 0, Ca |-> 0, CaO |-> 0, Mg |-> 1960, MgO |-> 0, S |-> 2650, SO3 |-> 0, Si |-> 0]],
     [id |-> "magnesium_nitrate_liquid", solubility_gL |-> 1000,
      pct |-> [N_total |-> 700, N_NO3 |-> 700, N_NH4 |-> 0, N_Urea |-> 0, P |-> 0, P2O5 |-> 0, K |-> 0, K2O |-> 0, Ca |-> 0, CaO |-> 0, Mg |-> 610, MgO |-> 0, S |-> 0, SO3 |-> 0, Si |-> 0]],
     [id |-> "fe_dtpa_12", solubility_gL |-> 80,
      pct |-> [N_total |-> 0, N_NO3 |-> 0, N_NH4 |-> 0, N_Urea |-> 0, P |-> 0, P2O5 |-> 0, K |-> 0, K2O |-> 0, Ca |-> 0, CaO |-> 0, Mg |-> 0, MgO |-> 0, S |-> 0, SO3 |-> 0, Si |-> 0]],
     [id |-> "fe_dtpa_liquid_3", solubility_gL |-> 1000,
      pct |-> [N_total |-> 0, N_NO3 |-> 0, N_NH4 |-> 0, N_Urea |-> 0, P |-> 0, P2O5 |-> 0, K |-> 0, K2O |-> 0, Ca |-> 0, CaO |-> 0, Mg |-> 0, MgO |-> 0, S |-> 0, SO3 |-> 0, Si |-> 0]],
     [id |-> "fe_dtpa_liquid_6", solubility_gL |-> 1000,
      pct |-> [N_total |-> 0, N_NO3 |-> 0, N_NH4 |-> 0, N_Urea |-> 0, P |-> 0, P2O5 |-> 0, K |-> 0, K2O |-> 0, Ca |-> 0, CaO |-> 0, Mg |-> 0, MgO |-> 0, S |-> 0, SO3 |-> 0, Si |-> 0]],
     [id |-> "fe_eddha_6", solubility_gL |-> 60,
      pct |-> [N_total |-> 0, N_NO3 |-> 0, N_NH4 |-> 0, N_Urea |-> 0, P |-> 0, P2O5 |-> 0, K |-> 0, K2O |-> 0, Ca |-> 0, CaO |-> 0, Mg |-> 0, MgO |-> 0, S |-> 0, SO3 |-> 0, Si |-> 0]],
     [id |-> "fe_hbed_6", solubility_gL |-> 60,
      pct |-> [N_total |-> 0, N_NO3 |-> 0, N_NH4 |-> 0, N_Urea |-> 0, P |-> 0, P2O5 |-> 0, K |-> 0, K2O |-> 0, Ca |-> 0, CaO |-> 0, Mg |-> 0, MgO |-> 0, S |-> 0, SO3 |-> 0, Si |-> 0]],
     [id |-> "mn_edta_13", solubility_gL |-> 100,
      pct |-> [N_total |-> 0, N_NO3 |-> 0, N_NH4 |-> 0, N_Urea |-> 0, P |-> 0, P2O5 |-> 0, K |-> 0, K2O |-> 0, Ca |-> 0, CaO |-> 0, Mg |-> 0, MgO |-> 0, S |-> 0, SO3 |-> 0, Si |-> 0]],
     [id |-> "zn_edta_15", solubility_gL |-> 100,
      pct |-> [N_total |-> 0, N_NO3 |-> 0, N_NH4 |-> 0, N_Urea |-> 0, P |-> 0, P2O5 |-> 0, K |-> 0, K2O |-> 0, Ca |-> 0, CaO |-> 0, Mg |-> 0, MgO |-> 0, S |-> 0, SO3 |-> 0, Si |-> 0]],
     [id |-> "cu_edta_15", solubility_gL |-> 100,
      pct |-> [N_total |-> 0, N_NO3 |-> 0, N_NH4 |-> 0, N_Urea |-> 0, P |-> 0, P2O5 |-> 0, K |-> 0, K2O |-> 0, Ca |-> 0, CaO |-> 0, Mg |-> 0, MgO |-> 0, S |-> 0, SO3 |-> 0, Si |-> 0]],
     [id |-> "manganese_sulfate", solubility_gL |-> 620,
      pct |-> [N_total |-> 0, N_NO3 |-> 0, N_NH4 |-> 0, N_Urea |-> 0, P |-> 0, P2O5 |-> 0, K |-> 0, K2O |-> 0, Ca |-> 0, CaO |-> 0, Mg |-> 0, MgO |-> 0, S |-> 1890, SO3 |-> 0, Si |-> 0]],
     [id |-> "zinc_sulfate_mono", solubility_gL |-> 580,
      pct |-> [N_total |-> 0, N_NO3 |-> 0, N_NH4 |-> 0, N_Urea |-> 0, P |-> 0, P2O5 |-> 0, K |-> 0, K2O |-> 0, Ca |-> 0, CaO |-> 0, Mg |-> 0, MgO |-> 0, S |-> 0, SO3 |-> 0, Si |-> 0]],
     [id |-> "borax", solubility_gL |-> 50,
      pct |-> [N_total |-> 0, N_NO3 |-> 0, N_NH4 |-> 0, N_Urea |-> 0, P |-> 0, P2O5 |-> 0, K |-> 0, K2O |-> 0, Ca |-> 0, CaO |-> 0, Mg |-> 0, MgO |-> 0, S |-> 0, SO3 |-> 0, Si |-> 0]],
     [id |-> "copper_sulfate", solubility_gL |-> 320,
      pct |-> [N_total |-> 0, N_NO3 |-> 0, N_NH4 |-> 0, N_Urea |-> 0, P |-> 0, P2O5 |-> 0, K |-> 0, K2O |-> 0, Ca |-> 0, CaO |-> 0, Mg |-> 0, MgO |-> 0, S |-> 1280, SO3 |-> 0, Si |-> 0]],
     [id |-> "sodium_molybdate", solubility_gL |-> 560,
      pct |-> [N_total |-> 0, N_NO3 |-> 0, N_NH4 |-> 0, N_Urea |-> 0, P |-> 0, P2O5 |-> 0, K |-> 0, K2O |-> 0, Ca |-> 0, CaO |-> 0, Mg |-> 0, MgO |-> 0, S |-> 0, SO3 |-> 0, Si |-> 0]],
     [id |-> "ammonium_molybdate", solubility_gL |-> 400,
      pct |-> [N_total |-> 800, N_NO3 |-> 0, N_NH4 |-> 800, N_Urea |-> 0, P |-> 0, P2O5 |-> 0, K |-> 0, K2O |-> 0, Ca |-> 0, CaO |-> 0, Mg |-> 0, MgO |-> 0, S |-> 0, SO3 |-> 0, Si |-> 0]],
     [id |-> "potassium_silicate_liquid_typical", solubility_gL |-> 1000,
      pct |-> [N_total |-> 0, N_NO3 |-> 0, N_NH4 |-> 0, N_Urea |-> 0, P |-> 0, P2O5 |-> 0, K |-> 0, K2O |-> 1800, Ca |-> 0, CaO |-> 0, Mg |-> 0, MgO |-> 0, S |-> 0, SO3 |-> 0, Si |-> 1200]],
     [id |-> "rexolin_cxk", solubility_gL |-> 80,
      pct |-> [N_total |-> 0, N_NO3 |-> 0, N_NH4 |-> 0, N_Urea |-> 0, P |-> 0, P2O5 |-> 0, K |-> 0, K2O |-> 0, Ca |-> 0, CaO |-> 0, Mg |-> 120, MgO |-> 0, S |-> 0, SO3 |-> 0, Si |-> 0]],
     [id |-> "utkarsh_double_combi", solubility_gL |-> 80,
      pct |-> [N_total |-> 0, N_NO3 |-> 0, N_NH4 |-> 0, N_Urea |-> 0, P |-> 0, P2O5 |-> 0, K |-> 0, K2O |-> 0, Ca |-> 100, CaO |-> 0, Mg |-> 250, MgO |-> 0, S |-> 0, SO3 |-> 0, Si |-> 0]],
     [id |-> "haifa_17_10_27", solubility_gL |-> 250,
      pct |-> [N_total |-> 1700, N_NO3 |-> 1130, N_NH4 |-> 570, N_Urea |-> 0, P |-> 0, P2O5 |-> 1000, K |-> 0, K2O |-> 2700, Ca |-> 0, CaO |-> 0, Mg |-> 0, MgO |-> 0, S |-> 0, SO3 |-> 0, Si |-> 0]],
     [id |-> "wsf_13_40_13", solubility_gL |-> 300,
      pct |-> [N_total |-> 1300, N_NO3 |-> 440, N_NH4 |-> 860, N_Urea |-> 0, P |-> 0, P2O5 |-> 4000, K |-> 0, K2O |-> 1300, Ca |-> 0, CaO |-> 0, Mg |-> 0, MgO |-> 0, S |-> 0, SO3 |-> 0, Si |-> 0]],
     [id |-> "wsf_12_6_22_12cao", solubility_gL |-> 180,
      pct |-> [N_total |-> 1200, N_NO3 |-> 1200, N_NH4 |-> 0, N_Urea |-> 0, P |-> 262, P2O5 |-> 600, K |-> 1826, K2O |-> 2200, Ca |-> 858, CaO |-> 1200, Mg |-> 0, MgO |-> 0, S |-> 0, SO3 |-> 0, Si |-> 0]],
     [id |-> "disodium_octaborate_tetrahydrate_20b", solubility_gL |-> 100,
      pct |-> [N_total |-> 0, N_NO3 |-> 0, N_NH4 |-> 0, N_Urea |-> 0, P |-> 0, P2O5 |-> 0, K |-> 0, K2O |-> 0, Ca |-> 0, CaO |-> 0, Mg |-> 0, MgO |-> 0, S |-> 0, SO3 |-> 0, Si |-> 0]],
     [id |-> "icl_pekacid_pk_acid", solubility_gL |-> 650,
      pct |-> [N_total |-> 0, N_NO3 |-> 0, N_NH4 |-> 0, N_Urea |-> 0, P |-> 0, P2O5 |-> 6000, K |-> 0, K2O |-> 2000, Ca |-> 0, CaO |-> 0, Mg |-> 0, MgO |-> 0, S |-> 0, SO3 |-> 0, Si |-> 0]]
  >>

FertIds == {FERTILIZERS[i].id : i \in 1..Len(FERTILIZERS)}

\* FERTILIZERS.find(f => f.id === fertId): the first entry with that id.
FindFert(fertId) ==
  FERTILIZERS[CHOOSE i \in 1..Len(FERTILIZERS) :
                /\ FERTILIZERS[i].id = fertId
                /\ \A j \in 1..(i - 1) : FERTILIZERS[j].id # fertId]

FERTILIZER_COMPATIBILITY ==
  [calcium_sources |->
     {"calcium_nitrate_calcinit_typical", "hydrospeed_cab_max",
      "calcium_nitrate_4h2o", "calcium_nitrate_anhydrous",
      "calcium_nitrate_liquid", "calcium_chloride_dihydrate_common",
      "calcium_chloride_solid", "calcium_chloride_liquid"},
   sulfate_sources |->
     {"magnesium_sulfate_heptahydrate_common", "magnesium_sulfate_anhydrous",
      "potassium_sulfate_common", "ammonium_sulfate_common",
      "langbeinite_common", "potassium_schoenite",
      "ammonium_thiosulfate_common", "potassium_thiosulfate_common",
      "manganese_sulfate", "zinc_sulfate_heptahydrate_common",
      "zinc_sulfate_mono", "copper_sulfate"},
   phosphate_sources |->
     {"map_typical", "mkp_typical", "dap_common", "ssp_typical",
      "phosphoric_acid_49", "urea_phosphate", "icl_pekacid_pk_acid"},
   silicate_sources |-> {"potassium_silicate_liquid_typical"}]

(***************************************************************************)
(* Tank/Compatibility planner helpers                                      *)
(***************************************************************************)
getSolubility(fertId) ==
  IF fertId \in FertIds THEN FindFert(fertId).solubility_gL
  ELSE DEFAULT_SOLUBILITY_GL

getCompatibilityTag(fertId) ==
  IF fertId \in FERTILIZER_COMPATIBILITY.calcium_sources THEN "calcium"
  ELSE IF fertId \in FERTILIZER_COMPATIBILITY.phosphate_sources THEN "phosphate"
  ELSE IF fertId \in FERTILIZER_COMPATIBILITY.sulfate_sources THEN "sulfate"
  ELSE IF fertId \in FERTILIZER_COMPATIBILITY.silicate_sources THEN "silicate"
  ELSE "neutral"

\* The skip with `grams < 0` for `grams <= 0`.
Skipped_OnlyNegative(entry) ==
  IF "grams" \in DOMAIN entry THEN entry.grams < 0 ELSE TRUE

\* An entry of Object.entries(formula) is [id, grams]; an entry whose value is
\* undefined or null is the record without the grams field.
\* `!grams || grams <= 0` of assignToTanks and of the planner loops.
Skipped(entry) == IF "grams" \in DOMAIN entry THEN entry.grams <= 0 ELSE TRUE

TankIdsFor(numTanks) ==
  {"A", "B"} \cup (IF numTanks >= 3 THEN {"C"} ELSE {})
             \cup (IF numTanks >= 4 THEN {"D"} ELSE {})

\* The empty object {}.
EmptyObj == [x \in {} |-> 0]

\* tanks.T[fertId] = grams
PutInTank(tanks, t, fertId, grams) ==
  [tanks EXCEPT ![t] = [k \in (DOMAIN tanks[t]) \cup {fertId} |->
                          IF k = fertId THEN grams ELSE tanks[t][k]]]

hasSignificantK(fertId) ==
  fertId \in FertIds /\ FindFert(fertId).pct.K2O > 2000

hasP(fertId) ==
  fertId \in FertIds /\ FindFert(fertId).pct.P2O5 > 500

hasMg(fertId) ==
  fertId \in FertIds /\ (FindFert(fertId).pct.Mg > 0 \/ FindFert(fertId).pct.MgO > 0)

\* The switch with the neutral fertilizers that are not K-dominant in tank A.
TankChoice_NeutralInA(fertId, numTanks, separateMg) ==
  LET tag == getCompatibilityTag(fertId)
      kDominant == numTanks >= 3 /\ hasSignificantK(fertId) /\ ~hasP(fertId)
  IN  IF separateMg /\ numTanks >= 4 /\ hasMg(fertId) /\ ~hasP(fertId)
         /\ ~hasSignificantK(fertId)
      THEN "D"
      ELSE CASE tag = "calcium"   -> "A"
             [] tag = "phosphate" -> "B"
             [] tag = "sulfate"   -> IF kDominant THEN "C" ELSE "B"
             [] tag = "silicate"  -> IF numTanks >= 4 THEN "D"
                                     ELSE IF numTanks >= 3 THEN "C" ELSE "B"
             [] OTHER             -> IF kDominant THEN "C" ELSE "A"

\* The tank one iteration of the assignToTanks loop writes to.
TankChoice(fertId, numTanks, separateMg) ==
  LET tag == getCompatibilityTag(fertId)
      kDominant == numTanks >= 3 /\ hasSignificantK(fertId) /\ ~hasP(fertId)
  IN  IF separateMg /\ numTanks >= 4 /\ hasMg(fertId) /\ ~hasP(fertId)
         /\ ~hasSignificantK(fertId)
      THEN "D"
      ELSE CASE tag = "calcium"   -> "A"
             [] tag = "phosphate" -> "B"
             [] tag = "sulfate"   -> IF kDominant THEN "C" ELSE "B"
             [] tag = "silicate"  -> IF numTanks >= 4 THEN "D"
                                     ELSE IF numTanks >= 3 THEN "C" ELSE "B"
             [] OTHER             -> IF kDominant THEN "C" ELSE "B"

\* One iteration of the loop over Object.entries(formula).
AssignStep(tanks, entry, numTanks, separateMg) ==
  IF Skipped(entry) THEN tanks
  ELSE PutInTank(tanks, TankChoice(entry.id, numTanks, separateMg),
                 entry.id, entry.grams)

RECURSIVE AssignLoop(_, _, _, _)
AssignLoop(tanks, entries, numTanks, separateMg) ==
  IF entries = << >> THEN tanks
  ELSE AssignLoop(AssignStep(tanks, Head(entries), numTanks, separateMg),
                  Tail(entries), numTanks, separateMg)

\* formula: the sequence Object.entries(formula) of [id, grams].
assignToTanks(formula, numTanks, separateMg) ==
  AssignLoop([t \in TankIdsFor(numTanks) |-> EmptyObj], formula,
             numTanks, separateMg)

(***************************************************************************)
(* Progressive-K planner: pure parts of _tryStockSolutionWithKTanks        *)
(***************************************************************************)
\* `v || 0.001` and `v || 0` of the ratio computations, in thousandths
\* (a ratio value is held in tenths, so v stands for v/10).
OrMilli(v) == IF v = 0 THEN 1 ELSE v * 100
OrZero(v) == v * 100

\* Fractions are pairs <<numerator, denominator>> with denominator > 0.
FracLess(a, b) == a[1] * b[2] < b[1] * a[2]
\* a / b > num / den, for positive fractions a and b
QuotientExceeds(a, b, num, den) == a[1] * b[2] * den > num * b[1] * a[2]

npRatio(t) == <<OrZero(t.ratio.N), OrMilli(t.ratio.P)>>

\* Position of targets[i] after the stable ascending sort by npRatio (0-based).
SortedPos(targets, i) ==
  Cardinality({j \in 1..Len(targets) :
                 \/ FracLess(npRatio(targets[j]), npRatio(targets[i]))
                 \/ /\ j < i
                    /\ ~FracLess(npRatio(targets[i]), npRatio(targets[j]))})

\* targetsWithNP[Math.floor(length / 2)].target
BaseTarget(targets) ==
  targets[CHOOSE i \in 1..Len(targets) :
            SortedPos(targets, i) = Len(targets) \div 2]

\* targetsWithNP[0].npRatio < 1.5
LowestNPBelowThreshold(targets) ==
  \E i \in 1..Len(targets) :
    /\ SortedPos(targets, i) = 0
    /\ 2 * npRatio(targets[i])[1] < 3 * npRatio(targets[i])[2]

\* max(r) / min(r) > num / den over the targets' ratios r, each a positive
\* fraction
Varies(r, num, den) ==
  /\ Len(r) > 1
  /\ \E i, j \in 1..Len(r) : QuotientExceeds(r[i], r[j], num, den)

pkRatioOf(t) == <<OrMilli(t.ratio.K), OrMilli(t.ratio.P)>>
npRatioOf(t) == <<OrMilli(t.ratio.N), OrMilli(t.ratio.P)>>
pmgRatioOf(t) == <<OrMilli(t.ratio.P), OrMilli(t.ratio.Mg)>>

hasVaryingPK(targets) ==
  Varies([i \in 1..Len(targets) |-> pkRatioOf(targets[i])], 3, 2)
hasVaryingNP(targets) ==
  Varies([i \in 1..Len(targets) |-> npRatioOf(targets[i])], 2, 1)
hasVaryingPMg(targets) ==
  Varies([i \in 1..Len(targets) |-> pmgRatioOf(targets[i])], 3, 2)

NKeys == {"N_total", "N_NO3", "N_NH4", "N_Urea"}
PKeys == {"P2O5", "P"}
KKeys == {"K2O", "K"}

hasSignificant(fert, keys) == \E key \in keys : fert.pct[key] > 500
hasAny(fert, keys) == \E key \in keys : fert.pct[key] > 0

\* fertObjects.some(f => hasAny(f, keys))
SomeHasAny(s, keys) == \E i \in 1..Len(s) : hasAny(s[i], keys)

\* Candidate filtering of the 3+ tank attempts.
FilterCandidates(numTanks, targets, fertObjects) ==
  IF numTanks < 3 THEN fertObjects
  ELSE
    LET varNP == hasVaryingNP(targets)
        varPK == hasVaryingPK(targets)
        KeepNP(f) == ~(hasSignificant(f, NKeys) /\ hasSignificant(f, PKeys))
        KeepPK(f) == ~(hasSignificant(f, PKeys) /\ hasSignificant(f, KKeys))
        f1 == IF varNP THEN SelectSeq(fertObjects, KeepNP) ELSE fertObjects
        filtered == IF varPK THEN SelectSeq(f1, KeepPK) ELSE f1
        missingN == varNP /\ ~SomeHasAny(filtered, NKeys)
        missingP == (varNP \/ varPK) /\ ~SomeHasAny(filtered, PKeys)
        missingK == varPK /\ ~SomeHasAny(filtered, KKeys)
    IN  IF Len(filtered) >= 3 /\ ~missingN /\ ~missingP /\ ~missingK
        THEN filtered ELSE fertObjects

\* f.priority || 10
PriorityOr10(f) == IF "priority" \in DOMAIN f /\ f.priority # 0 THEN f.priority ELSE 10

Max(a, b) == IF a >= b THEN a ELSE b
Min(a, b) == IF a <= b THEN a ELSE b

\* De-prioritisation of the N sources that would go to tank B: acts on copies.
Deprioritize(targets, ferts) ==
  [i \in 1..Len(ferts) |->
     LET f == ferts[i]
         hasN == hasAny(f, NKeys)
         hasCa == f.pct.Ca > 0 \/ f.pct.CaO > 0
     IN  IF hasN /\ ~hasCa /\ LowestNPBelowThreshold(targets)
         THEN [id |-> f.id, solubility_gL |-> f.solubility_gL, pct |-> f.pct,
               priority |-> Max(PriorityOr10(f), 50)]
         ELSE f]

\* The candidate list handed to optimizeFormula by the attempt with K tanks.
AdjustedFertObjects(numTanks, targets, fertObjects) ==
  Deprioritize(targets, FilterCandidates(numTanks, targets, fertObjects))

\* availableFertilizers.map(id => FERTILIZERS.find(...)).filter(Boolean)
RECURSIVE FertObjectsOf(_)
FertObjectsOf(ids) ==
  IF ids = << >> THEN << >>
  ELSE IF Head(ids) \in FertIds
       THEN <<FindFert(Head(ids))>> \o FertObjectsOf(Tail(ids))
       ELSE FertObjectsOf(Tail(ids))

(***************************************************************************)
(* Issues, tank feasibility and the dosing solver                          *)
(***************************************************************************)
Issue(level, code) == [level |-> level, code |-> code]

IsError(i) == i.level = "error"
NotError(i) == i.level # "error"

ErrorsOf(issues) == SelectSeq(issues, IsError)
NonErrorsOf(issues) == SelectSeq(issues, NotError)
HasError(issues) == \E i \in 1..Len(issues) : issues[i].level = "error"

TankOrder == <<"A", "B", "C", "D">>

\* The entries of the formula that assignToTanks placed in tank t, in
\* insertion order (the iteration order of Object.entries(tankFormula)).
TankEntries(formula, tankAssignment, t) ==
  LET InTank(e) == t \in DOMAIN tankAssignment /\ e.id \in DOMAIN tankAssignment[t]
  IN  SelectSeq(formula, InTank)

\* One iteration of the checkTankFeasibility loop; gL in hundredths of g/L.
TankIssue(fertId, gL) ==
  IF gL <= 0 THEN << >>
  ELSE IF gL > getSolubility(fertId) * 100
       THEN <<Issue("error", "SOLUBILITY_EXCEEDED")>>
       ELSE IF gL > 80 * getSolubility(fertId)
            THEN <<Issue("warning", "SOLUBILITY_NEAR_LIMIT")>>
            ELSE << >>

RECURSIVE checkTankIssues(_, _)
checkTankIssues(entries, conc) ==
  IF entries = << >> THEN << >>
  ELSE TankIssue(Head(entries).id, Head(entries).grams * conc)
         \o checkTankIssues(Tail(entries), conc)

\* checkTankFeasibility(tankFormula): { feasible, issues }
checkTankFeasibility(entries, conc) ==
  LET issues == checkTankIssues(entries, conc)
  IN  [feasible |-> ~HasError(issues), issues |-> issues]

RECURSIVE SumOver(_, _)
SumOver(f, S) ==
  IF S = {} THEN 0
  ELSE LET x == CHOOSE y \in S : TRUE IN f[x] + SumOver(f, S \ {x})

Abs(x) == IF x < 0 THEN 0 - x ELSE x

\* The checks with the two volume checks independent of each other.
DosingIssues_BothVolumeChecks(totalDosing, maxDosing, ratioMatches, predictedEC, targetEC) ==
  (IF totalDosing > maxDosing
     THEN <<Issue("error", "DOSING_EXCEEDS_MAX")>> ELSE << >>)
  \o (IF totalDosing * 10 > maxDosing * 8
        THEN <<Issue("warning", "HIGH_DOSING_VOLUME")>> ELSE << >>)
  \o (IF ~ratioMatches THEN <<Issue("error", "RATIO_MISMATCH")>> ELSE << >>)
  \o (IF Abs(predictedEC - targetEC) * 100 > 5 * targetEC
        THEN <<Issue("warning", "EC_MISMATCH")>> ELSE << >>)

\* The feasibility checks at the end of solveDosing.  totalDosing and
\* maxDosing in tenths of mL/L, predictedEC and targetEC in tenths of mS/cm.
DosingIssues(totalDosing, maxDosing, ratioMatches, predictedEC, targetEC) ==
  (IF totalDosing > maxDosing
     THEN <<Issue("error", "DOSING_EXCEEDS_MAX")>>
     ELSE IF totalDosing * 10 > maxDosing * 8
          THEN <<Issue("warning", "HIGH_DOSING_VOLUME")>>
          ELSE << >>)
  \o (IF ~ratioMatches THEN <<Issue("error", "RATIO_MISMATCH")>> ELSE << >>)
  \o (IF Abs(predictedEC - targetEC) * 100 > 5 * targetEC
        THEN <<Issue("warning", "EC_MISMATCH")>> ELSE << >>)

\* Zero as a fraction <<numerator, denominator>>, and the profile
\* { N: 0, P: 0, K: 0, Ca: 0, Mg: 0, S: 0 }
FZero == <<0, 1>>
ZeroProfile == [n \in {"N", "P", "K", "Ca", "Mg", "S"} |-> FZero]

\* solveDosing without the return on a target EC at or below the baseline.
solveDosing_NoBaselineCheck(tanks, targetEC, baselineEC, maxDosing, search) ==
  LET tankIds == {t \in DOMAIN tanks : tanks[t] # {}}
  IN  IF tankIds = {}
      THEN [dosing |-> EmptyObj, achieved |-> ZeroProfile, predictedEC |-> baselineEC,
            feasible |-> FALSE, issues |-> <<Issue("error", "NO_FERTILIZERS")>>]
      ELSE
        LET dosing == [t \in tankIds |-> search.volume]
            totalDosing == SumOver(dosing, tankIds)
            predictedEC == targetEC + search.ecDeviation
            issues == DosingIssues(totalDosing, maxDosing, search.ratioMatches,
                                   predictedEC, targetEC)
        IN  [dosing |-> dosing,
             predictedEC |-> predictedEC,
             feasible |-> ~HasError(issues),
             issues |-> issues]

\* solveDosing(tanks, {ratio, targetEC, baselineEC}, {maxDosing, tolerance}).
\* tanks: tank id -> set of fertilizer ids with a stock strength.  search is
\* the outcome of the numeric part (the Phase 1 ratio search, the Phase 2 EC
\* scaling and the EC estimate): the scaled volume of each non-empty tank,
\* whether checkRatioMatch matched, and the deviation of the estimated EC
\* (baseline included) from the target EC.
solveDosing(tanks, targetEC, baselineEC, maxDosing, search) ==
  LET tankIds == {t \in DOMAIN tanks : tanks[t] # {}}
  IN  IF tankIds = {}
      THEN [dosing |-> EmptyObj, achieved |-> ZeroProfile, predictedEC |-> baselineEC,
            feasible |-> FALSE, issues |-> <<Issue("error", "NO_FERTILIZERS")>>]
      ELSE IF targetEC - baselineEC <= 0
      THEN [dosing |-> EmptyObj, achieved |-> ZeroProfile, predictedEC |-> baselineEC,
            feasible |-> FALSE, issues |-> <<Issue("error", "EC_UNACHIEVABLE")>>]
      ELSE
        LET dosing == [t \in tankIds |-> search.volume]
            totalDosing == SumOver(dosing, tankIds)
            predictedEC == targetEC + search.ecDeviation
            issues == DosingIssues(totalDosing, maxDosing, search.ratioMatches,
                                   predictedEC, targetEC)
        IN  [dosing |-> dosing,
             predictedEC |-> predictedEC,
             feasible |-> ~HasError(issues),
             issues |-> issues]

(***************************************************************************)
(* _tryStockSolutionWithKTanks after the optimizer has returned            *)
(***************************************************************************)
\* target.baselineEC ?? defaultBaselineEC, target.maxDosingML ?? 50
BaselineOf(target, defaultBaselineEC) ==
  IF "baselineEC" \in DOMAIN target THEN target.baselineEC ELSE defaultBaselineEC
MaxDosingOf(target) ==
  IF "maxDosingML" \in DOMAIN target THEN target.maxDosingML ELSE 500

RECURSIVE MinSafeConcentration_FullSolubility(_, _)
\* The loop with the whole solubility as the limit of a stock.
MinSafeConcentration_FullSolubility(entries, acc) ==
  IF entries = << >> THEN acc
  ELSE LET e == Head(entries)
           maxConc == (getSolubility(e.id) * 100) \div e.grams
       IN  MinSafeConcentration_FullSolubility(Tail(entries), Min(acc, maxConc))

RECURSIVE MinSafeConcentration(_, _)
\* The loop over the assigned fertilizers: the least of the requested
\* concentration and floor(solubility * 0.8 / gramsPerFinalL).
MinSafeConcentration(entries, acc) ==
  IF entries = << >> THEN acc
  ELSE LET e == Head(entries)
           maxConc == (getSolubility(e.id) * 80) \div e.grams
       IN  MinSafeConcentration(Tail(entries), Min(acc, maxConc))

RECURSIVE ConcatAll(_)
ConcatAll(ss) == IF ss = << >> THEN << >> ELSE Head(ss) \o ConcatAll(Tail(ss))

\* The tanks object without the `continue` on an empty tank.
BuildTanks_KeepsEmpty(tankAssignment, effectiveConcentration) ==
  [t \in DOMAIN tankAssignment |->
     [id |-> t,
      fertilizers |->
        [f \in DOMAIN tankAssignment[t] |->
           [grams_per_L |-> tankAssignment[t][f] * effectiveConcentration]]]]

\* The tanks object: one entry per non-empty tank of the assignment, each
\* fertilizer at gramsPerFinalL * effectiveConcentration.
BuildTanks(tankAssignment, effectiveConcentration) ==
  [t \in {u \in DOMAIN tankAssignment : DOMAIN tankAssignment[u] # {}} |->
     [id |-> t,
      fertilizers |->
        [f \in DOMAIN tankAssignment[t] |->
           [grams_per_L |-> tankAssignment[t][f] * effectiveConcentration]]]]

\* `allIssues.push(...feasibility.issues)` over the non-empty tanks.
FeasibilityIssues(formula, tankAssignment, effectiveConcentration) ==
  ConcatAll([k \in 1..Len(TankOrder) |->
    IF /\ TankOrder[k] \in DOMAIN tankAssignment
       /\ DOMAIN tankAssignment[TankOrder[k]] # {}
    THEN checkTankFeasibility(
           TankEntries(formula, tankAssignment, TankOrder[k]),
           effectiveConcentration).issues
    ELSE << >>])

\* The warning pushed when the concentration was reduced.
ConcentrationReduced(effectiveConcentration, stockConcentration) ==
  IF effectiveConcentration < stockConcentration
  THEN <<Issue("warning", "CONCENTRATION_REDUCED")>>
  ELSE << >>

\* allErrors with every issue of every target pushed to it.
DosingLoopErrors_AllIssues(dosingResults) ==
  ConcatAll([i \in 1..Len(dosingResults) |-> dosingResults[i].issues])

\* `allIssues.push(...dosingResult.issues)` and, for an infeasible target,
\* `allErrors.push(...dosingResult.issues.filter(error))`, over the targets.
DosingLoopIssues(dosingResults) ==
  ConcatAll([i \in 1..Len(dosingResults) |-> dosingResults[i].issues])
DosingLoopErrors(dosingResults) ==
  ConcatAll([i \in 1..Len(dosingResults) |->
    IF ~dosingResults[i].feasible
    THEN ErrorsOf(dosingResults[i].issues) ELSE << >>])

\* target.finalLiters ?? 1000
FinalLitersOf(target) ==
  IF "finalLiters" \in DOMAIN target THEN target.finalLiters ELSE 1000

\* tankDosing: { mL_per_L, mL_total } for every tank solveDosing dosed
TankDosing(dosing, finalLiters) ==
  [t \in DOMAIN dosing |->
     [mL_per_L |-> dosing[t], mL_total |-> dosing[t] * finalLiters]]

\* One instruction: the fields the model keeps of the object pushed to
\* dosingInstructions.
DosingInstruction(target, dosingResult) ==
  [targetId |-> target.id,
   targetEC |-> target.targetEC,
   tanks |-> TankDosing(dosingResult.dosing, FinalLitersOf(target)),
   totalDosing_mL_per_L |-> SumOver(dosingResult.dosing, DOMAIN dosingResult.dosing),
   warnings |-> dosingResult.issues]

\* dosingInstructions with an entry for the feasible targets only.
DosingInstructions_FeasibleOnly(targets, dosingResults) ==
  LET Feasible(ins) == ~HasError(ins.warnings)
  IN  SelectSeq([i \in 1..Len(targets) |->
                   DosingInstruction(targets[i], dosingResults[i])], Feasible)

\* dosingInstructions: one entry per target, pushed in the order of the
\* loop over the targets.
DosingInstructions(targets, dosingResults) ==
  [i \in 1..Len(targets) |-> DosingInstruction(targets[i], dosingResults[i])]

\* The two returns that follow the dosing loop.
DosingReturn(targets, stockConcentration, tanks, tankIssues, dosingResults) ==
  IF DosingLoopErrors(dosingResults) # << >>
  THEN [result |-> [success |-> FALSE, tanks |-> tanks,
                    dosing |-> DosingInstructions(targets, dosingResults),
                    errors |-> DosingLoopErrors(dosingResults),
                    warnings |->
                      NonErrorsOf(tankIssues \o DosingLoopIssues(dosingResults))],
        issues |-> tankIssues \o DosingLoopIssues(dosingResults),
        dosingResults |-> dosingResults]
  ELSE [result |-> [success |-> TRUE, tanks |-> tanks,
                    dosing |-> DosingInstructions(targets, dosingResults),
                    warnings |->
                      NonErrorsOf(tankIssues \o DosingLoopIssues(dosingResults)),
                    errors |-> << >>,
                    meta |-> [concentrationFactor |-> stockConcentration,
                              numTanks |-> Cardinality(DOMAIN tanks)]],
        issues |-> tankIssues \o DosingLoopIssues(dosingResults),
        dosingResults |-> dosingResults]

\* Step 4: solveDosing for every target, from the tanks built.
DosingStep(targets, stockConcentration, defaultBaselineEC, searches, tanks, tankIssues) ==
  DosingReturn(targets, stockConcentration, tanks, tankIssues,
    [i \in 1..Len(targets) |->
       solveDosing([t \in DOMAIN tanks |-> DOMAIN tanks[t].fertilizers],
                   targets[i].targetEC,
                   BaselineOf(targets[i], defaultBaselineEC),
                   MaxDosingOf(targets[i]), searches[i])])

\* The return on a solubility error, else the dosing step.
TankReturn(targets, stockConcentration, defaultBaselineEC, searches, tanks, feasIssues, reduced) ==
  IF ErrorsOf(feasIssues) # << >>
  THEN [result |-> [success |-> FALSE, tanks |-> tanks,
                    errors |-> ErrorsOf(feasIssues),
                    warnings |-> NonErrorsOf(feasIssues \o reduced)],
        issues |-> feasIssues \o reduced,
        dosingResults |-> << >>]
  ELSE DosingStep(targets, stockConcentration, defaultBaselineEC, searches,
                  tanks, feasIssues \o reduced)

\* The return on a concentration below 10x, else the tanks and their checks.
TankStep(targets, formula, stockConcentration, defaultBaselineEC, searches, tankAssignment, effectiveConcentration) ==
  IF effectiveConcentration < 10
  THEN [result |-> [success |-> FALSE,
                    errors |-> <<Issue("error", "CONCENTRATION_TOO_LOW")>>],
        issues |-> <<Issue("error", "CONCENTRATION_TOO_LOW")>>,
        dosingResults |-> << >>]
  ELSE TankReturn(targets, stockConcentration, defaultBaselineEC, searches,
         BuildTanks(tankAssignment, effectiveConcentration),
         FeasibilityIssues(formula, tankAssignment, effectiveConcentration),
         ConcentrationReduced(effectiveConcentration, stockConcentration))

\* The entries of the formula that assignToTanks placed in some tank.
AssignedEntries(formula, tankAssignment) ==
  LET Placed(e) == \E t \in DOMAIN tankAssignment : e.id \in DOMAIN tankAssignment[t]
  IN  SelectSeq(formula, Placed)

\* effectiveConcentration: Math.min(stockConcentration,
\* Math.floor(maxSafeConcentration)) over the fertilizers assigned to tanks.
EffectiveConcentration(numTanks, targets, formula, stockConcentration) ==
  MinSafeConcentration(
    AssignedEntries(formula,
      assignToTanks(formula, numTanks, hasVaryingPMg(targets))),
    stockConcentration)

\* The part of the attempt that follows `await optimizeFormula(...)`.
\* formula: Object.entries(optimResult.formula); searches[i]: the numeric
\* outcome of solveDosing for targets[i].
\* Returns the attempt's result and, for reference, every issue the attempt
\* produced and what solveDosing returned for each target.
FinishAttempt(numTanks, targets, formula, stockConcentration, defaultBaselineEC, searches) ==
  IF formula = << >>
  THEN [result |-> [success |-> FALSE,
                    errors |-> <<Issue("error", "OPTIMIZATION_FAILED")>>],
        issues |-> <<Issue("error", "OPTIMIZATION_FAILED")>>,
        dosingResults |-> << >>]
  ELSE TankStep(targets, formula, stockConcentration, defaultBaselineEC, searches,
         assignToTanks(formula, numTanks, hasVaryingPMg(targets)),
         EffectiveConcentration(numTanks, targets, formula, stockConcentration))

(***************************************************************************)
(* Formula optimizer: solveMilpBrowser and optimizeFormula                 *)
(***************************************************************************)
\* Real numbers of the optimizer are fractions <<n, d>> in lowest terms.
RECURSIVE GCD(_, _)
GCD(a, b) == IF b = 0 THEN a ELSE GCD(b, a % b)
Frac(n, d) == IF n = 0 THEN <<0, 1>> ELSE <<n \div GCD(n, d), d \div GCD(n, d)>>
FMul(a, b) == Frac((a[1] \div GCD(a[1], b[2])) * (b[1] \div GCD(b[1], a[2])), (a[2] \div GCD(b[1], a[2])) * (b[2] \div GCD(a[1], b[2])))
FDiv(a, b) == FMul(a, <<b[2], b[1]>>)
FAdd(a, b) == Frac(a[1] * (b[2] \div GCD(a[2], b[2])) + b[1] * (a[2] \div GCD(a[2], b[2])), (a[2] \div GCD(a[2], b[2])) * b[2])

\* OXIDE_CONVERSIONS, in hundred-thousandths
P2O5_to_P == 43646
K2O_to_K == 83013
CaO_to_Ca == 71469
MgO_to_Mg == 60317
SO3_to_S == 40059

\* const nutrients = ['N_total', 'P2O5', 'K2O', 'Ca', 'Mg', 'S', 'Si']
MilpNutrients == {"N_total", "P2O5", "K2O", "Ca", "Mg", "S", "Si"}

\* (1 * 1000 * (pct / 100)) / volume: ppm of one gram, pct in hundredths of
\* a percent
PpmPerGram(pct, volume) == Frac(pct, 10 * volume)

\* perGramContrib(fert) of solveMilpBrowser: ppm of each MILP nutrient that
\* one gram of the fertilizer gives in `volume` litres.
perGramContrib(fert, volume) ==
  LET ppm(k) == PpmPerGram(fert.pct[k], volume)
      via(k, c) == FMul(ppm(k), Frac(c, 100000))
      back(k, c) == FMul(ppm(k), Frac(100000, c))
      hasNForms == fert.pct.N_NO3 # 0 \/ fert.pct.N_NH4 # 0
  IN  [N_total |-> IF hasNForms THEN FAdd(ppm("N_NO3"), ppm("N_NH4"))
                   ELSE ppm("N_total"),
       P2O5 |-> FAdd(ppm("P2O5"), back("P", P2O5_to_P)),
       K2O |-> FAdd(ppm("K2O"), back("K", K2O_to_K)),
       Ca |-> FAdd(ppm("Ca"), via("CaO", CaO_to_Ca)),
       Mg |-> FAdd(ppm("Mg"), via("MgO", MgO_to_Mg)),
       S |-> FAdd(ppm("S"), via("SO3", SO3_to_S)),
       Si |-> ppm("Si")]

RECURSIVE FSum(_, _)
\* getElementalContributionPerGram(fert): ppm of each element that one gram
\* of the fertilizer gives in one litre (pct * 10); each element is read from
\* its elemental key if that is declared, else from its oxide key.
getElementalContributionPerGram(fert) ==
  LET ppm(k) == Frac(fert.pct[k], 10)
      either(e, o, c) == IF fert.pct[e] # 0 THEN ppm(e)
                         ELSE FMul(ppm(o), Frac(c, 100000))
      hasNForms == fert.pct.N_NO3 # 0 \/ fert.pct.N_NH4 # 0
  IN  [N |-> IF hasNForms THEN Frac(fert.pct.N_NO3 + fert.pct.N_NH4, 10)
             ELSE ppm("N_total"),
       P |-> either("P", "P2O5", P2O5_to_P),
       K |-> either("K", "K2O", K2O_to_K),
       Ca |-> either("Ca", "CaO", CaO_to_Ca),
       Mg |-> either("Mg", "MgO", MgO_to_Mg),
       S |-> either("S", "SO3", SO3_to_S)]

\* The elemental entries of the achieved profile solveMilpBrowser recomputes
\* from its formula, for one gram of the fertilizer: every declared key adds
\* to its element.
achievedPerGram(fert, volume) ==
  LET ppm(k) == PpmPerGram(fert.pct[k], volume)
      via(k, c) == FMul(ppm(k), Frac(c, 100000))
      hasNForms == fert.pct.N_NO3 # 0 \/ fert.pct.N_NH4 # 0
  IN  [N |-> IF hasNForms THEN FAdd(ppm("N_NO3"), ppm("N_NH4"))
             ELSE ppm("N_total"),
       P |-> FAdd(via("P2O5", P2O5_to_P), ppm("P")),
       K |-> FAdd(via("K2O", K2O_to_K), ppm("K")),
       Ca |-> FAdd(ppm("Ca"), via("CaO", CaO_to_Ca)),
       Mg |-> FAdd(ppm("Mg"), via("MgO", MgO_to_Mg)),
       S |-> FAdd(ppm("S"), via("SO3", SO3_to_S))]

\* The sum of f[x] over the set S of a function to fractions.
FSum(f, S) ==
  IF S = {} THEN <<0, 1>>
  ELSE LET x == CHOOSE y \in S : TRUE IN FAdd(f[x], FSum(f, S \ {x}))

\* The achieved profile solveMilpBrowser computes from the formula it
\* returns (formula: fertilizer id -> grams), on the MILP nutrients.
AchievedOf(formula, volume) ==
  [n \in MilpNutrients |->
     FSum([id \in DOMAIN formula |->
             FMul(formula[id], perGramContrib(FindFert(id), volume)[n])],
          DOMAIN formula)]

\* ppmTargets of optimizeFormula.  Ratio values are in tenths; in the
\* absolute mode a value stands for ppm.
ppmTargets(targetRatios, concentration, mode, opts) ==
  LET keys == {"N", "P", "K", "Ca", "Mg", "S"}
      positive == {targetRatios[k] : k \in {k \in keys : targetRatios[k] > 0}}
      minRatio == IF positive = {} THEN 10
                  ELSE CHOOSE v \in positive : \A w \in positive : v <= w
      absolute == "useAbsoluteTargets" \in DOMAIN opts /\ opts.useAbsoluteTargets
      base(k) == IF absolute THEN Frac(targetRatios[k], 10)
                 ELSE FMul(Frac(targetRatios[k], minRatio), <<concentration, 1>>)
      oxide(k, c) == IF mode = "elemental" THEN FMul(base(k), Frac(100000, c))
                     ELSE base(k)
  IN  [N_total |-> base("N"),
       P2O5 |-> oxide("P", P2O5_to_P),
       K2O |-> oxide("K", K2O_to_K),
       Ca |-> base("Ca"),
       Mg |-> base("Mg"),
       S |-> base("S"),
       Si |-> IF "Si" \in DOMAIN targetRatios THEN Frac(targetRatios.Si, 10)
              ELSE <<0, 1>>]

\* tolerance: 0.01, in hundredths
MilpTolerance == 1

\* a < b and a <= b on fractions
FLess(a, b) == a[1] * (b[2] \div GCD(a[2], b[2])) < b[1] * (a[2] \div GCD(a[2], b[2]))
FLeq(a, b) == a[1] * (b[2] \div GCD(a[2], b[2])) <= b[1] * (a[2] \div GCD(a[2], b[2]))

\* tMinus[n] = t > 0 ? t * (1 - tolerance) : 0 and tPlus[n] likewise
tMinus(targets, n) == FMul(targets[n], Frac(100 - MilpTolerance, 100))
tPlus(targets, n) == FMul(targets[n], Frac(100 + MilpTolerance, 100))

\* Grams of a primal value, which the model holds in 1e-5 g.
Grams(x) == Frac(x, 100000)

\* The constraints with a lower bound that its slack can relax.
MilpConstraints_SoftLowerBound(fertIds, targets, volume, x) == TRUE

\* The constraints of the LP on the dose variables x.  slackMinus enters
\* `terms - slackMinus >= tMinus` with a negative sign, so the lower bound
\* binds whatever the slack; slackPlus absorbs any excess over the upper
\* bound.  BIG_M and the binary variables bound no dose of the model.
MilpConstraints(fertIds, targets, volume, x) ==
  \A n \in MilpNutrients :
    FLess(<<0, 1>>, tMinus(targets, n)) =>
      FLeq(tMinus(targets, n),
           FSum([id \in fertIds |->
                   FMul(Grams(x[id]), perGramContrib(FindFert(id), volume)[n])],
                fertIds))

\* A targeted nutrient that no candidate supplies leaves the LP without a
\* feasible point.
MilpFeasible(fertIds, targets, volume) ==
  \A n \in MilpNutrients :
    FLess(<<0, 1>>, targets[n]) =>
      \E id \in fertIds : perGramContrib(FindFert(id), volume)[n] # <<0, 1>>

\* The formula with every positive dose kept.
MilpFormula_KeepsAll(primal) ==
  [id \in {i \in DOMAIN primal : primal[i] > 0} |-> Grams(primal[id])]

\* if (grams > 1e-4) formula[f.id] = grams
MilpFormula(primal) ==
  [id \in {i \in DOMAIN primal : primal[i] > 10} |-> Grams(primal[id])]

\* for (let i = 0; i < 5; i++)
EcIterations == 5

\* The convergence test with a quarter of the target as the margin.
WithinOnePercent_Quarter(finalEC, targetEC) == Abs(finalEC - targetEC) * 4 < targetEC

\* error < 0.01, with error = |finalEC - targetEC| / targetEC
WithinOnePercent(finalEC, targetEC) == Abs(finalEC - targetEC) * 100 < targetEC

\* The i-th estimate the loop receives from estimateECFromPPM.
EstAt(ests, i) == IF i <= Len(ests) THEN ests[i] ELSE ests[Len(ests)]

RECURSIVE ScaleLoop(_, _, _, _)
\* The EC scaling loop from its i-th iteration (0-based) on.  st holds the
\* factor of the last scaledFormula (applied), the variable scaleFactor, the
\* last estimate, the number of iterations run and, for each of them, the
\* factor it scaled by and the estimate it received.
ScaleLoop(i, st, targetEC, ests) ==
  IF ~(i < EcIterations) THEN st
  ELSE LET finalEC == EstAt(ests, i + 1)
           scaled == [applied |-> st.scaleFactor, scaleFactor |-> st.scaleFactor,
                      finalEC |-> finalEC, iterations |-> i + 1,
                      trail |-> Append(st.trail, [factor |-> st.scaleFactor,
                                                  ec |-> finalEC])]
       IN  IF WithinOnePercent(finalEC, targetEC) THEN scaled
           ELSE ScaleLoop(i + 1,
                  [scaled EXCEPT !.scaleFactor =
                     FMul(st.scaleFactor, Frac(targetEC, finalEC))],
                  targetEC, ests)

\* value * scaleFactor on every entry of a formula or an achieved profile
ScaleAll(f, scaleFactor) == [k \in DOMAIN f |-> FMul(f[k], scaleFactor)]

\* if (options.targetEC && options.targetEC > 0) ... if (originalEC &&
\* originalEC.ec_mS_cm > 0)
EcScalingApplies(opts, originalEC) ==
  "targetEC" \in DOMAIN opts /\ opts.targetEC > 0 /\ originalEC > 0

\* The locals of the scaling loop when it ends.
EcScaling(opts, originalEC, ests) ==
  ScaleLoop(0, [applied |-> Frac(opts.targetEC, originalEC),
                scaleFactor |-> Frac(opts.targetEC, originalEC),
                finalEC |-> originalEC, iterations |-> 0, trail |-> << >>],
            opts.targetEC, ests)

\* What optimizeFormula returns from the result of solveMilpBrowser, the
\* estimate of its EC and the locals st of the scaling loop.  EC in
\* hundredths of mS/cm.
optimizeFormulaReturn(targetRatios, targets, milp, opts, originalEC, st) ==
  IF EcScalingApplies(opts, originalEC)
  THEN     [formula |-> ScaleAll(milp.formula, st.applied),
            achieved |-> ScaleAll(milp.achieved, st.applied),
            targetRatios |-> targetRatios,
            targetPPM |-> targets,
            ecScaling |-> [scaleFactor |-> st.scaleFactor,
                           originalEC |-> originalEC,
                           targetEC |-> opts.targetEC,
                           achievedEC |-> st.finalEC]]
  ELSE [formula |-> milp.formula, achieved |-> milp.achieved,
        targetRatios |-> targetRatios, targetPPM |-> targets]

(***************************************************************************)
(* solveDosing: the ratio search of Phase 1 and the EC scaling of Phase 2  *)
(***************************************************************************)
\* Doses are fractions of tenths of mL/L, EC values fractions of tenths of
\* mS/cm; maxDosing is in tenths of mL/L.
ratioSteps ==
  { <<1, 50>>, <<1, 20>>, <<1, 10>>, <<3, 20>>, <<1, 5>>, <<3, 10>>, <<2, 5>>,
    <<1, 2>>, <<7, 10>>, <<1, 1>>, <<3, 2>>, <<2, 1>>, <<5, 2>>, <<3, 1>>,
    <<4, 1>>, <<5, 1>>, <<7, 1>>, <<10, 1>>, <<15, 1>>, <<20, 1>>, <<50, 1>> }
steps3 == { <<1, 10>>, <<1, 5>>, <<1, 2>>, <<1, 1>>, <<2, 1>>, <<5, 1>>, <<10, 1>> }
steps4 == { <<1, 5>>, <<1, 2>>, <<1, 1>>, <<2, 1>>, <<5, 1>> }
refinementSteps == { -3, -1, 1, 3 }

FOne == <<1, 1>>
FMax(a, b) == IF FLess(a, b) THEN b ELSE a

\* Object.keys(tanks), in insertion order
DosingTankOrder == <<"A", "B", "C", "D", "E">>

\* tankIds: the tanks that hold at least one fertilizer
NonEmptyTankIds(tanks) ==
  LET Holds(t) == t \in DOMAIN tanks /\ tanks[t] # {}
  IN  SelectSeq(DosingTankOrder, Holds)

SeqRange(s) == {s[i] : i \in 1..Len(s)}

\* 10 * r / total, in tenths of mL
Share(r, total) == FDiv(FMul(<<100, 1>>, r), total)

\* The dosings the grid of Phase 1 tries, for 1, 2, 3 and 4 or more tanks,
\* over given ratio steps; a fifth tank and beyond get 1 mL.
Phase1GridOver(tankIds, abRatios, ratios3, ratios4) ==
  IF Len(tankIds) = 1
  THEN { [t \in SeqRange(tankIds) |-> <<100, 1>>] }
  ELSE IF Len(tankIds) = 2
  THEN { [t \in SeqRange(tankIds) |->
            IF t = tankIds[1] THEN Share(ab, FAdd(ab, FOne))
            ELSE Share(FOne, FAdd(ab, FOne))] : ab \in abRatios }
  ELSE IF Len(tankIds) = 3
  THEN { [t \in SeqRange(tankIds) |->
            IF t = tankIds[1] THEN Share(a, FAdd(FAdd(a, b), FOne))
            ELSE IF t = tankIds[2] THEN Share(b, FAdd(FAdd(a, b), FOne))
            ELSE Share(FOne, FAdd(FAdd(a, b), FOne))] : a \in ratios3, b \in ratios3 }
  ELSE { [t \in SeqRange(tankIds) |->
            IF t = tankIds[1] THEN Share(a, FAdd(FAdd(FAdd(a, b), c), FOne))
            ELSE IF t = tankIds[2] THEN Share(b, FAdd(FAdd(FAdd(a, b), c), FOne))
            ELSE IF t = tankIds[3] THEN Share(c, FAdd(FAdd(FAdd(a, b), c), FOne))
            ELSE IF t = tankIds[4] THEN Share(FOne, FAdd(FAdd(FAdd(a, b), c), FOne))
            ELSE <<10, 1>>] : a \in ratios4, b \in ratios4, c \in ratios4 }

Phase1Grid(tankIds) == Phase1GridOver(tankIds, ratioSteps, steps3, steps4)

\* One accepted step of the local refinement:
\* testDosing[tankId] = Math.max(0.01, baseDose * (1 + delta)), delta in tenths
RefineStep(dosing, tankId, delta) ==
  [dosing EXCEPT ![tankId] = FMax(<<1, 10>>, FMul(dosing[tankId], Frac(10 + delta, 10)))]

RECURSIVE Refined(_, _)
\* bestDosing after the accepted refinement steps, in order
Refined(dosing, accepted) ==
  IF accepted = << >> THEN dosing
  ELSE Refined(RefineStep(dosing, Head(accepted).tankId, Head(accepted).delta),
               Tail(accepted))

\* Phase 2 with the factor applied to the first tank only.
Phase2_FirstTankOnly(bestDosing, tankIds, effectiveTargetEC, currentEC) ==
  IF FLess(FZero, currentEC)
  THEN [t \in DOMAIN bestDosing |->
          IF t = tankIds[1]
          THEN FMul(bestDosing[t], FDiv(<<effectiveTargetEC, 1>>, currentEC))
          ELSE bestDosing[t]]
  ELSE bestDosing

\* Phase 2: `dosing = { ...bestDosing }` and, when currentEC > 0,
\* `dosing[t] *= ecScale` for every t of tankIds.
Phase2(bestDosing, tankIds, effectiveTargetEC, currentEC) ==
  IF FLess(FZero, currentEC)
  THEN [t \in DOMAIN bestDosing |->
          IF t \in SeqRange(tankIds)
          THEN FMul(bestDosing[t], FDiv(<<effectiveTargetEC, 1>>, currentEC))
          ELSE bestDosing[t]]
  ELSE bestDosing

\* The two early returns of solveDosing.
DosingEarlyReturn(baselineEC, code) ==
  [dosing |-> EmptyObj, achieved |-> ZeroProfile, predictedEC |-> <<baselineEC, 1>>,
   feasible |-> FALSE, issues |-> <<Issue("error", code)>>]

\* The checks at the end of solveDosing and its return value.  total and
\* predictedEC are fractions: both sides of each comparison of DosingIssues
\* are multiplied by the denominator.
DosingChecked(dosing, total, achieved, predictedEC, targetEC, maxDosing, ratioMatches) ==
  [dosing |-> dosing,
   achieved |-> achieved,
   predictedEC |-> predictedEC,
   feasible |-> ~HasError(DosingIssues(total[1], maxDosing * total[2], ratioMatches,
                                        predictedEC[1], targetEC * predictedEC[2])),
   issues |-> DosingIssues(total[1], maxDosing * total[2], ratioMatches,
                           predictedEC[1], targetEC * predictedEC[2])]

\* From Phase 2 to the return.  num is the outcome of the numeric parts:
\* bestDosing of Phase 1, achieved and currentEC of that dosing (the
\* achieved profile is linear in the doses), scaledEC of the scaled dosing,
\* and whether checkRatioMatch matched.
DosingScaled(targetEC, baselineEC, maxDosing, num, dosing) ==
  DosingChecked(dosing, FSum(dosing, DOMAIN dosing),
    IF FLess(FZero, num.currentEC)
    THEN [n \in DOMAIN num.achieved |->
            FMul(num.achieved[n], FDiv(<<targetEC - baselineEC, 1>>, num.currentEC))]
    ELSE num.achieved,
    FAdd(IF FLess(FZero, num.currentEC) THEN num.scaledEC ELSE num.currentEC,
         <<baselineEC, 1>>),
    targetEC, maxDosing, num.ratioMatches)

\* solveDosing(tanks, target, options) with its phases.  tanks: tank id ->
\* set of fertilizer ids; target: {ratio, targetEC, baselineEC = 0};
\* options: {maxDosing = 50}.
solveDosingPhases(tanks, target, opts, num) ==
  LET tankIds == NonEmptyTankIds(tanks)
      baselineEC == IF "baselineEC" \in DOMAIN target THEN target.baselineEC ELSE 0
      maxDosing == IF "maxDosing" \in DOMAIN opts THEN opts.maxDosing ELSE 500
  IN  IF tankIds = << >> THEN DosingEarlyReturn(baselineEC, "NO_FERTILIZERS")
      ELSE IF target.targetEC - baselineEC <= 0
      THEN DosingEarlyReturn(baselineEC, "EC_UNACHIEVABLE")
      ELSE DosingScaled(target.targetEC, baselineEC, maxDosing, num,
             Phase2(num.bestDosing, tankIds, target.targetEC - baselineEC,
                    num.currentEC))

(***************************************************************************)
(* Bounds and input pools                                                  *)
(***************************************************************************)
MaxFactoryCalls == 2
NumCallers == 2
MaxTargets == 2
MaxFormulaLen == 2
MaxOptCalls == 2

Callers == 1..NumCallers
PromiseIds == 1..MaxFactoryCalls

Ratio(n, p, k, ca, mg, s) == [N |-> n, P |-> p, K |-> k, Ca |-> ca, Mg |-> mg, S |-> s]

\* Targets a caller may pass: ratio values in tenths, EC in tenths of mS/cm,
\* maxDosingML in tenths of mL/L.
TargetPool ==
  { [id |-> "veg", ratio |-> Ratio(30, 10, 20, 20, 5, 0), targetEC |-> 15],
    [id |-> "flower", ratio |-> Ratio(10, 10, 40, 10, 0, 0), targetEC |-> 20,
     baselineEC |-> 3, maxDosingML |-> 100],
    [id |-> "tap", ratio |-> Ratio(20, 10, 20, 10, 0, 0), targetEC |-> 8,
     baselineEC |-> 10] }

\* Sequences of distinct pool targets of length 0..MaxTargets.
TargetLists ==
  UNION { {s \in [1..n -> TargetPool] : \A i, j \in 1..n : i # j => s[i] # s[j]} :
          n \in 0..MaxTargets }

AvailableChoices ==
  { << >>,
    <<"invalid_id_xyz">>,
    <<"potassium_nitrate_typical">>,
    <<"calcium_nitrate_calcinit_typical", "mkp_typical", "potassium_nitrate_typical">>,
    <<"calcium_nitrate_calcinit_typical", "map_typical", "potassium_sulfate_common",
      "magnesium_sulfate_heptahydrate_common">>,
    <<"ssp_common", "potassium_silicate_liquid_typical">> }

\* The options objects of the calls: each field may be missing.
OptionChoices ==
  { [targets |-> t, availableFertilizers |-> a, stockConcentration |-> 100] :
      t \in TargetLists, a \in AvailableChoices }
  \cup { [availableFertilizers |-> a, stockConcentration |-> 100] : a \in AvailableChoices }
  \cup { [targets |-> t, stockConcentration |-> 100] : t \in TargetLists }

\* Primal values the solver may report for a dose variable (hundredths of g).
PrimalValues == {0, 200}

\* Outcomes of the numeric part of solveDosing (see solveDosing).
SearchOutcomes ==
  { [volume |-> 50, ratioMatches |-> TRUE, ecDeviation |-> 0],
    [volume |-> 45, ratioMatches |-> TRUE, ecDeviation |-> 2],
    [volume |-> 300, ratioMatches |-> TRUE, ecDeviation |-> 0],
    [volume |-> 50, ratioMatches |-> FALSE, ecDeviation |-> 0],
    [volume |-> 300, ratioMatches |-> FALSE, ecDeviation |-> 2] }

\* Arguments of the optimizeFormula calls.  Ratio values in tenths, the
\* target EC in hundredths of mS/cm.  The targets carry no Si, so the Si
\* adjustment of optimizeFormula is not entered, and no pekacidMaxLimit.
OptArgsPool ==
  { [targetRatios |-> Ratio(137, 0, 463, 0, 0, 0), volume |-> 1,
     availableFertilizers |->
       <<"calcium_nitrate_calcinit_typical", "potassium_nitrate_typical">>,
     concentration |-> 75, mode |-> "oxide", options |-> EmptyObj],
    [targetRatios |-> Ratio(10, 0, 10, 0, 0, 0), volume |-> 1,
     availableFertilizers |-> <<"potassium_nitrate_typical">>,
     concentration |-> 75, mode |-> "oxide", options |-> EmptyObj],
    [targetRatios |-> Ratio(30, 10, 20, 20, 5, 0), volume |-> 1,
     availableFertilizers |-> <<"potassium_nitrate_typical">>,
     concentration |-> 75, mode |-> "oxide", options |-> [targetEC |-> 200]],
    [targetRatios |-> Ratio(750, 0, 2530, 1, 0, 0), volume |-> 1,
     availableFertilizers |->
       <<"calcium_nitrate_calcinit_typical", "potassium_nitrate_typical">>,
     concentration |-> 75, mode |-> "oxide",
     options |-> [useAbsoluteTargets |-> TRUE, targetEC |-> 10]] }

\* Primal values the solver may report for a dose variable, in 1e-5 g.
OptPrimalValues == {0, 10, 55, 55000}

\* Values of estimateECFromPPM, in hundredths of mS/cm: of the profile of
\* the base formula, and of a scaled profile in the loop.
BaseEcValues == {0, 80}
LoopEcValues == {10, 12}

(***************************************************************************)
(* State                                                                   *)
(***************************************************************************)
VARIABLES
  highsFactory,          \* window.highs || window.Module is a function
  lpModel,               \* window.LPModel is loaded
  cachedHighsInstance,   \* _cachedHighsInstance: 0 (null) or an instance
  highsLoadingPromise,   \* _highsLoadingPromise: 0 (null) or a promise
  promiseState,          \* state of the promise of each factory invocation
  factoryCalls,          \* number of factory invocations so far
  everCached,            \* every instance that was ever cached
  callers,               \* direct callers of getHighsInstance / preloadHighsSolver
  pc,                    \* position of the calculateStockSolutions call
  options,               \* its options object
  numTanks,              \* K of the running attempt
  attemptsStarted,       \* the K values whose attempt was started, in order
  attemptLog,            \* one entry per finished attempt
  optimizerCalls,        \* optimizeFormula invocations of the call
  optimizerLog,          \* how each finished optimizeFormula invocation ended
  awaiting,              \* promise the call awaits (0: the cached instance)
  result,                \* the value the call resolved to
  thrown,                \* the error the call rejected with
  dosingResults,         \* what solveDosing returned in the returned attempt
  asgFormula, asgNumTanks, asgSeparateMg,   \* arguments of an assignToTanks call
  asgTanks, asgDone,                         \* and its return value
  optPc,                 \* position of the optimizeFormula call
  optArgs,               \* its arguments
  optFound,              \* the module state it found
  optAwaiting,           \* promise the call awaits (0: the cached instance)
  optLog,                \* one entry per finished optimizeFormula call
  solverMemo,            \* the problems the solver has answered
  ecMemo,                \* the profiles estimateECFromPPM has been applied to
  catalog,               \* the objects of window.FertilizerCore.FERTILIZERS
  atArgs,                \* what one attempt starts from after the optimizer
  atOut,                 \* what it computed and returned
  atDone,
  sdArgs,                \* arguments and numeric outcomes of a solveDosing call
  sdOut,                 \* its return value
  sdDone,
  cgFert, cgVolume,      \* a catalog fertilizer and the volume of a formula
  cgOut,                 \* its per-gram contribution, by each component
  cgDone,
  siArgs,                \* an optimizeFormula call with Si target: options, solver answers
  siOut,                 \* what the call returned and computed on the way
  siDone,
  nnArgs,                \* a call of the standalone solver: matrix, targets, solver iterates
  nnOut,                 \* what the call returned and computed on the way
  nnDone

solverVars == <<cachedHighsInstance, highsLoadingPromise, promiseState,
                factoryCalls, everCached>>
envVars == <<highsFactory, lpModel>>
plannerVars == <<pc, options, numTanks, attemptsStarted, attemptLog,
                 optimizerCalls, optimizerLog, awaiting, result, thrown,
                 dosingResults>>
assignVars == <<asgFormula, asgNumTanks, asgSeparateMg, asgTanks, asgDone>>
optVars == <<optPc, optArgs, optFound, optAwaiting, optLog, solverMemo, ecMemo>>
attemptVars == <<atArgs, atOut, atDone>>
dosingVars == <<sdArgs, sdOut, sdDone>>
contribVars == <<cgFert, cgVolume, cgOut, cgDone>>
siVars == <<siArgs, siOut, siDone>>
nnlsVars == <<nnArgs, nnOut, nnDone>>
vars == <<envVars, solverVars, callers, plannerVars, assignVars, optVars, catalog,
          attemptVars, dosingVars, contribVars, siVars, nnlsVars>>

(***************************************************************************)
(* Cached HiGHS solver instance                                            *)
(***************************************************************************)
\* getHighsInstance without the `if (_highsLoadingPromise)` check.
getHighsInstance_NoPendingCheck ==
  IF cachedHighsInstance # 0
  THEN [ret |-> "instance", value |-> cachedHighsInstance, promise |-> 0, start |-> FALSE]
  ELSE IF ~highsFactory
  THEN [ret |-> "throw", value |-> 0, promise |-> 0, start |-> FALSE]
  ELSE [ret |-> "pending", value |-> 0, promise |-> factoryCalls + 1, start |-> TRUE]

\* What getHighsInstance does with the module state it finds: return the
\* cached instance, return the pending promise, throw, or invoke the factory
\* and return the new pending promise.
getHighsInstance ==
  IF cachedHighsInstance # 0
  THEN [ret |-> "instance", value |-> cachedHighsInstance, promise |-> 0, start |-> FALSE]
  ELSE IF highsLoadingPromise # 0
  THEN [ret |-> "pending", value |-> 0, promise |-> highsLoadingPromise, start |-> FALSE]
  ELSE IF ~highsFactory
  THEN [ret |-> "throw", value |-> 0, promise |-> 0, start |-> FALSE]
  ELSE [ret |-> "pending", value |-> 0, promise |-> factoryCalls + 1, start |-> TRUE]

\* The effect of that call on the module state.
ApplyGetHighs(o) ==
  IF o.start
  THEN /\ factoryCalls < MaxFactoryCalls
       /\ factoryCalls' = factoryCalls + 1
       /\ highsLoadingPromise' = o.promise
       /\ promiseState' = [promiseState EXCEPT ![o.promise] = "pending"]
       /\ UNCHANGED <<cachedHighsInstance, everCached>>
  ELSE UNCHANGED solverVars

\* The module state a call finds.
ModuleState ==
  IF cachedHighsInstance # 0 THEN "cached"
  ELSE IF highsLoadingPromise # 0 THEN "loading" ELSE "empty"

\* The .then callback of the factory promise.
FactoryResolve(p) ==
  /\ promiseState[p] = "pending"
  /\ promiseState' = [promiseState EXCEPT ![p] = "resolved"]
  /\ cachedHighsInstance' = p
  /\ highsLoadingPromise' = 0
  /\ everCached' = everCached \cup {p}
  /\ UNCHANGED <<factoryCalls, envVars, catalog, attemptVars, dosingVars, contribVars, siVars, nnlsVars, callers, plannerVars, assignVars, optVars>>

\* The .catch callback of the factory promise, leaving the pending slot set.
FactoryReject_KeepsSlot(p) ==
  /\ promiseState[p] = "pending"
  /\ promiseState' = [promiseState EXCEPT ![p] = "rejected"]
  /\ UNCHANGED <<highsLoadingPromise, cachedHighsInstance, everCached, factoryCalls, envVars, catalog,
                 attemptVars, dosingVars, contribVars, siVars, nnlsVars, callers, plannerVars, assignVars, optVars>>

\* The .catch callback of the factory promise.
FactoryReject(p) ==
  /\ promiseState[p] = "pending"
  /\ promiseState' = [promiseState EXCEPT ![p] = "rejected"]
  /\ highsLoadingPromise' = 0
  /\ UNCHANGED <<cachedHighsInstance, everCached, factoryCalls, envVars, catalog, attemptVars, dosingVars, contribVars, siVars, nnlsVars,
                 callers, plannerVars, assignVars, optVars>>

IdleCaller == [pc |-> "idle", op |-> "none", promise |-> 0, value |-> 0,
               found |-> "empty", started |-> FALSE]

\* A caller invokes getHighsInstance().
CallGetHighsInstance(c) ==
  /\ callers[c].pc = "idle"
  /\ LET o == getHighsInstance
     IN  /\ ApplyGetHighs(o)
         /\ callers' = [callers EXCEPT ![c] =
              [pc |-> CASE o.ret = "instance" -> "got"
                        [] o.ret = "pending" -> "waiting"
                        [] OTHER -> "failed",
               op |-> "get", promise |-> o.promise, value |-> o.value,
               found |-> ModuleState, started |-> o.start]]
  /\ UNCHANGED <<envVars, catalog, attemptVars, dosingVars, contribVars, siVars, nnlsVars, plannerVars, assignVars, optVars>>

\* A caller invokes preloadHighsSolver().
CallPreloadHighsSolver(c) ==
  /\ callers[c].pc = "idle"
  /\ IF cachedHighsInstance # 0 \/ highsLoadingPromise # 0
     THEN /\ callers' = [callers EXCEPT ![c] =
               [pc |-> "done", op |-> "preload", promise |-> 0, value |-> 0,
                found |-> ModuleState, started |-> FALSE]]
          /\ UNCHANGED solverVars
     ELSE LET o == getHighsInstance
          IN  /\ ApplyGetHighs(o)
              /\ callers' = [callers EXCEPT ![c] =
                   [pc |-> IF o.ret = "pending" THEN "waiting" ELSE "done",
                    op |-> "preload", promise |-> o.promise, value |-> 0,
                    found |-> ModuleState, started |-> o.start]]
  /\ UNCHANGED <<envVars, catalog, attemptVars, dosingVars, contribVars, siVars, nnlsVars, plannerVars, assignVars, optVars>>

\* The promise a caller awaits has settled.
CallerResume(c) ==
  /\ callers[c].pc = "waiting"
  /\ promiseState[callers[c].promise] \in {"resolved", "rejected"}
  /\ callers' = [callers EXCEPT ![c] =
       IF callers[c].op = "preload" THEN [@ EXCEPT !.pc = "done"]
       ELSE IF promiseState[callers[c].promise] = "resolved"
            THEN [@ EXCEPT !.pc = "got", !.value = callers[c].promise]
            ELSE [@ EXCEPT !.pc = "failed"]]
  /\ UNCHANGED <<envVars, catalog, attemptVars, dosingVars, contribVars, siVars, nnlsVars, solverVars, plannerVars, assignVars, optVars>>

\* A caller whose call is over is ready for its next call.
CallerReturn(c) ==
  /\ callers[c].pc \in {"got", "failed", "done"}
  /\ callers' = [callers EXCEPT ![c] = IdleCaller]
  /\ UNCHANGED <<envVars, catalog, attemptVars, dosingVars, contribVars, siVars, nnlsVars, solverVars, plannerVars, assignVars, optVars>>

(***************************************************************************)
(* calculateStockSolutions                                                 *)
(***************************************************************************)
NoResult == [success |-> FALSE, errors |-> << >>]
NoError == "none"

\* `!targets || targets.length === 0`
NoTargets(opts) == "targets" \notin DOMAIN opts \/ opts.targets = << >>
\* `!availableFertilizers || availableFertilizers.length === 0`
NoFertilizers(opts) ==
  "availableFertilizers" \notin DOMAIN opts \/ opts.availableFertilizers = << >>

\* The early returns with the fertilizer list checked before the targets.
ConfigurationError_FertilizersFirst(opts) ==
  IF NoFertilizers(opts) THEN "NO_FERTILIZERS"
  ELSE IF NoTargets(opts) THEN "NO_TARGETS"
  ELSE IF FertObjectsOf(opts.availableFertilizers) = << >> THEN "NO_VALID_FERTILIZERS"
  ELSE NoError

\* The early returns of calculateStockSolutions: the code of the error the
\* call returns without starting an attempt, or NoError.
ConfigurationError(opts) ==
  IF NoTargets(opts) THEN "NO_TARGETS"
  ELSE IF NoFertilizers(opts) THEN "NO_FERTILIZERS"
  ELSE IF FertObjectsOf(opts.availableFertilizers) = << >> THEN "NO_VALID_FERTILIZERS"
  ELSE NoError

\* The loop with `numTanks === 3` as its last tank count.
ProgressiveK_StopsAtThree(k, success) ==
  IF success THEN 0
  ELSE IF k = 3 THEN 0
  ELSE k + 1

\* The loop without the `if (result.success) return result`.
ProgressiveK_IgnoresSuccess(k, success) ==
  IF k = 4 THEN 0 ELSE k + 1

\* The Progressive-K loop after an attempt with numTanks tanks returned:
\* 0 when the call returns that attempt's result, else the next tank count.
ProgressiveK(k, success) ==
  IF success THEN 0
  ELSE IF k = 4 THEN 0
  ELSE k + 1

\* The candidates of the running attempt.
Candidates(opts, k) ==
  AdjustedFertObjects(k, opts.targets, FertObjectsOf(opts.availableFertilizers))

\* The de-prioritisation assigning the priority to the object it was given.
DeprioritizeInCatalog_InPlace(cat, targets, ferts) ==
  [i \in 1..Len(cat) |->
     IF \E j \in 1..Len(ferts) :
          ferts[j].id = cat[i].id /\ Deprioritize(targets, ferts)[j] # ferts[j]
     THEN [id |-> cat[i].id, solubility_gL |-> cat[i].solubility_gL,
           pct |-> cat[i].pct, priority |-> 50]
     ELSE cat[i]]

\* The objects of the catalog after the de-prioritisation of ferts, which
\* holds objects of the catalog: `{ ...f, priority }` builds a new object
\* and writes to none of them.
DeprioritizeInCatalog(cat, targets, ferts) == cat

\* The objects of the catalog after the attempt with k tanks has filtered
\* and de-prioritised its candidates; the filters build new arrays.
CatalogAfterAttempt(cat, opts, k) ==
  DeprioritizeInCatalog(cat, opts.targets,
    FilterCandidates(k, opts.targets, FertObjectsOf(opts.availableFertilizers)))

CandidateIds(opts, k) ==
  {Candidates(opts, k)[i].id : i \in 1..Len(Candidates(opts, k))}

\* solveMilpBrowser's extraction of the formula from the solution: one entry
\* per candidate whose primal value is above 1e-4 g, in candidate order.
FormulaOf(candidates, primal) ==
  LET idx == SelectSeq([i \in 1..Len(candidates) |-> i],
                       LAMBDA i : /\ primal[candidates[i].id] > 0
                                  /\ \A j \in 1..(i - 1) :
                                       candidates[j].id # candidates[i].id)
  IN  [n \in 1..Len(idx) |->
         [id |-> candidates[idx[n]].id, grams |-> primal[candidates[idx[n]].id]]]

\* The start of an attempt that reuses the formula of the K = 2 attempt: the
\* optimizer is invoked for K = 2 only.
BeginAttempt_ReusesFormula(k, log) ==
  /\ numTanks' = k
  /\ attemptsStarted' = Append(attemptsStarted, k)
  /\ optimizerCalls' = IF k = 2 THEN optimizerCalls + 1 ELSE optimizerCalls
  /\ IF ~lpModel
     THEN /\ pc' = "thrown"
          /\ thrown' = "MILP dependencies not loaded"
          /\ optimizerLog' = Append(log, "threw")
          /\ awaiting' = 0
          /\ UNCHANGED solverVars
     ELSE LET o == getHighsInstance
          IN  /\ ApplyGetHighs(o)
              /\ IF o.ret = "throw"
                 THEN /\ pc' = "thrown"
                      /\ thrown' = "HiGHS solver not available"
                      /\ optimizerLog' = Append(log, "threw")
                      /\ awaiting' = 0
                 ELSE /\ pc' = "awaitSolver"
                      /\ awaiting' = o.promise
                      /\ optimizerLog' = log
                      /\ UNCHANGED thrown

\* The start of an attempt with k tanks, up to the first suspension (log: the
\* optimizer log so far):
\* _tryStockSolutionWithKTanks calls optimizeFormula, which calls
\* solveMilpBrowser, which throws without the LP model library and else
\* awaits getHighsInstance().
BeginAttempt(k, log) ==
  /\ numTanks' = k
  /\ attemptsStarted' = Append(attemptsStarted, k)
  /\ optimizerCalls' = optimizerCalls + 1
  /\ IF ~lpModel
     THEN /\ pc' = "thrown"
          /\ thrown' = "MILP dependencies not loaded"
          /\ optimizerLog' = Append(log, "threw")
          /\ awaiting' = 0
          /\ UNCHANGED solverVars
     ELSE LET o == getHighsInstance
          IN  /\ ApplyGetHighs(o)
              /\ IF o.ret = "throw"
                 THEN /\ pc' = "thrown"
                      /\ thrown' = "HiGHS solver not available"
                      /\ optimizerLog' = Append(log, "threw")
                      /\ awaiting' = 0
                 ELSE /\ pc' = "awaitSolver"
                      /\ awaiting' = o.promise
                      /\ optimizerLog' = log
                      /\ UNCHANGED thrown

calculateStockSolutions(opts) ==
  /\ pc = "idle"
  /\ options' = opts
  /\ IF ConfigurationError(opts) # NoError
     THEN /\ pc' = "returned"
          /\ result' = [success |-> FALSE,
                        errors |-> <<Issue("error", ConfigurationError(opts))>>]
          /\ UNCHANGED <<numTanks, attemptsStarted, optimizerCalls, optimizerLog,
                         awaiting, thrown, solverVars, catalog>>
     ELSE /\ BeginAttempt(2, optimizerLog)
          /\ catalog' = CatalogAfterAttempt(catalog, opts, 2)
          /\ UNCHANGED result
  /\ UNCHANGED <<attemptLog, dosingResults, envVars, callers, assignVars, optVars,
                 attemptVars, dosingVars, contribVars, siVars, nnlsVars>>

\* The await of getHighsInstance() resuming on a rejected promise as well.
SolverReady_IgnoresRejection ==
  /\ pc = "awaitSolver"
  /\ IF awaiting = 0 THEN TRUE
     ELSE promiseState[awaiting] \in {"resolved", "rejected"}

\* `await getHighsInstance()` has a solver instance to resume with.
SolverReady ==
  /\ pc = "awaitSolver"
  /\ IF awaiting = 0 THEN TRUE ELSE promiseState[awaiting] = "resolved"

\* The attempt's return with the errors of the attempts before it kept in
\* front of its own.
ResumeAttempt_CarriesErrors ==
  /\ SolverReady
  /\ \E primal \in [CandidateIds(options, numTanks) -> PrimalValues] :
     \E searches \in [1..Len(options.targets) -> SearchOutcomes] :
       LET formula == FormulaOf(Candidates(options, numTanks), primal)
           fin == FinishAttempt(numTanks, options.targets, formula,
                                options.stockConcentration, 0, searches)
           next == ProgressiveK(numTanks, fin.result.success)
       IN  /\ attemptLog' = Append(attemptLog,
                [numTanks |-> numTanks,
                 success |-> fin.result.success,
                 producedError |-> HasError(fin.issues)])
           /\ IF next = 0
              THEN /\ pc' = "returned"
                   /\ result' = [fin.result EXCEPT !.errors = result.errors \o @]
                   /\ dosingResults' = fin.dosingResults
                   /\ optimizerLog' = Append(optimizerLog, "formula")
                   /\ UNCHANGED <<numTanks, attemptsStarted, optimizerCalls,
                                  awaiting, thrown, solverVars, catalog>>
              ELSE /\ BeginAttempt(next, Append(optimizerLog, "formula"))
                   /\ catalog' = CatalogAfterAttempt(catalog, options, next)
                   /\ result' = [success |-> FALSE,
                                 errors |-> result.errors \o fin.result.errors]
                   /\ UNCHANGED dosingResults
  /\ UNCHANGED <<options, envVars, callers, assignVars, optVars, attemptVars, dosingVars, contribVars, siVars, nnlsVars>>

\* The solver returns a solution: the optimizer returns its formula, the
\* attempt runs to its end and the Progressive-K loop returns or goes on.
ResumeAttempt ==
  /\ SolverReady
  /\ \E primal \in [CandidateIds(options, numTanks) -> PrimalValues] :
     \E searches \in [1..Len(options.targets) -> SearchOutcomes] :
       LET formula == FormulaOf(Candidates(options, numTanks), primal)
           fin == FinishAttempt(numTanks, options.targets, formula,
                                options.stockConcentration, 0, searches)
           next == ProgressiveK(numTanks, fin.result.success)
       IN  /\ attemptLog' = Append(attemptLog,
                [numTanks |-> numTanks,
                 success |-> fin.result.success,
                 producedError |-> HasError(fin.issues)])
           /\ IF next = 0
              THEN /\ pc' = "returned"
                   /\ result' = fin.result
                   /\ dosingResults' = fin.dosingResults
                   /\ optimizerLog' = Append(optimizerLog, "formula")
                   /\ UNCHANGED <<numTanks, attemptsStarted, optimizerCalls,
                                  awaiting, thrown, solverVars, catalog>>
              ELSE /\ BeginAttempt(next, Append(optimizerLog, "formula"))
                   /\ catalog' = CatalogAfterAttempt(catalog, options, next)
                   /\ UNCHANGED <<result, dosingResults>>
  /\ UNCHANGED <<options, envVars, callers, assignVars, optVars, attemptVars, dosingVars, contribVars, siVars, nnlsVars>>

\* highs.solve returns no solution: solveMilpBrowser throws.
SolverReturnsNothing ==
  /\ SolverReady
  /\ pc' = "thrown"
  /\ thrown' = "MILP solver failed"
  /\ optimizerLog' = Append(optimizerLog, "threw")
  /\ UNCHANGED <<options, numTanks, attemptsStarted, attemptLog, optimizerCalls,
                 awaiting, result, dosingResults, solverVars, envVars, catalog, attemptVars, dosingVars, contribVars, siVars, nnlsVars, callers,
                 assignVars, optVars>>

\* The solver initialisation the call awaits was rejected.
SolverInitRejected ==
  /\ pc = "awaitSolver"
  /\ awaiting # 0
  /\ promiseState[awaiting] = "rejected"
  /\ pc' = "thrown"
  /\ thrown' = "HiGHS initialisation failed"
  /\ optimizerLog' = Append(optimizerLog, "threw")
  /\ UNCHANGED <<options, numTanks, attemptsStarted, attemptLog, optimizerCalls,
                 awaiting, result, dosingResults, solverVars, envVars, catalog, attemptVars, dosingVars, contribVars, siVars, nnlsVars, callers,
                 assignVars, optVars>>

(***************************************************************************)
(* optimizeFormula with an absolute Si target and a PeKacid limit           *)
(***************************************************************************)
\* |a - b| and min(a, b) on fractions
FAbsDiff(a, b) == IF FLess(a, b) THEN FAdd(b, <<0 - a[1], a[2]>>) ELSE FAdd(a, <<0 - b[1], b[2]>>)
FMin(a, b) == IF FLess(a, b) THEN a ELSE b

\* for (let siIter = 0; siIter < 5; siIter++)
SiIterations == 5
\* Math.min(currentSiTarget, targetSi * 5)
SiTargetCap == 5

\* What one solveMilpBrowser call of optimizeFormula is given, as far as the
\* calls of one optimizeFormula call differ: the Si target (ppm) and the
\* pekacidMaxLimit (hundredths of g/L; 0 when the argument is left out).
MilpCall(si, limit) == [Si |-> si, pekacidMaxLimit |-> limit]

\* The first call of the adjusted problems: the initial solve with the Si
\* target of the caller and the limit of the options.
InitialCall(args) == MilpCall(<<args.targetSi, 1>>, args.pekacidMaxLimit)

\* The re-solve of the Si adjustment passes fertilizers, targets, volume,
\* tolerance and onProgress, and no pekacidMaxLimit.
AdjustedCall(currentSiTarget) == MilpCall(currentSiTarget, 0)

\* The solver is deterministic: the answer to the last of the calls made is
\* that of the first call with the same problem.  script holds, for the i-th
\* call, the PeKacid dose the solver chose (hundredths of g) and the EC
\* estimate of the profile it achieved; the Si the solver achieves is the
\* Si target it was given.
MilpAnswer(script, calls) ==
  LET p == calls[Len(calls)]
      i == CHOOSE n \in 1..Len(calls) :
             calls[n] = p /\ \A m \in 1..(n - 1) : calls[m] # p
  IN  [Si |-> p.Si, pek |-> <<script.pek[i], 1>>, originalEC |-> script.origs[i],
       solve |-> i]

\* scaledFormula / scaledAchieved and the loop's variables after the EC
\* scaling loop has run on the result r of a solve.
EcScaled(r, targetEC, ests) ==
  LET st == EcScaling([targetEC |-> targetEC], r.originalEC, ests)
  IN  [Si |-> FMul(r.Si, st.applied), pek |-> FMul(r.pek, st.applied),
       solve |-> r.solve, scaleFactor |-> st.scaleFactor, finalEC |-> st.finalEC]

\* The guard of the block that holds the EC scaling loop and the Si
\* adjustment, entered for an absolute Si target as well.
EcBlockEntered_ForSiToo(args, originalEC) ==
  (args.targetEC > 0 \/ args.targetSi > 0) /\ originalEC > 0

\* if (options.targetEC && options.targetEC > 0) ... if (originalEC &&
\* originalEC.ec_mS_cm > 0): the guard of the block that holds the EC scaling
\* loop and, inside it, the Si adjustment.
EcBlockEntered(args, originalEC) == args.targetEC > 0 /\ originalEC > 0

RECURSIVE SiLoop(_, _)
\* The Si adjustment loop from its iteration s.siIter on.  s holds the
\* variables of the loop, the solver calls made so far and every EC-scaled
\* result computed so far.
SiLoop(s, args) ==
  IF ~(s.siIter < SiIterations) THEN s
  ELSE LET targetSi == <<args.targetSi, 1>>
           achievedSi == s.scaled.Si
           siError == FAbsDiff(achievedSi, targetSi)
           better == FLess(siError, s.bestSiError)
           t == [s EXCEPT !.bestSiError = IF better THEN siError ELSE @,
                          !.best = IF better THEN s.scaled ELSE @,
                          !.entered = s.siIter + 1]
       IN  IF FLess(FMul(siError, <<10, 1>>), targetSi) THEN t
           ELSE LET siAdjustmentRatio == IF achievedSi # FZero
                                         THEN FDiv(targetSi, achievedSi) ELSE <<2, 1>>
                    currentSiTarget == FMin(FMul(s.currentSiTarget, siAdjustmentRatio),
                                            FMul(targetSi, <<SiTargetCap, 1>>))
                    calls == Append(s.calls, AdjustedCall(currentSiTarget))
                    adjustedResult == MilpAnswer(args.script, calls)
                    scaled == IF adjustedResult.originalEC > 0
                              THEN EcScaled(adjustedResult, args.targetEC, args.script.ests)
                              ELSE s.scaled
               IN  SiLoop([t EXCEPT !.siIter = s.siIter + 1,
                                    !.currentSiTarget = currentSiTarget,
                                    !.calls = calls,
                                    !.scaled = scaled,
                                    !.computed = IF adjustedResult.originalEC > 0
                                                 THEN Append(@, scaled) ELSE @],
                          args)

\* optimizeFormula from the point where solveMilpBrowser is first called:
\* the value it returns and, as locals, the solver calls it made, the
\* EC-scaled results it computed and the Si iterations it entered.
optimizeFormulaSi(args) ==
  LET milpResult == MilpAnswer(args.script, <<InitialCall(args)>>)
      first == EcScaled(milpResult, args.targetEC, args.script.ests)
      start == [siIter |-> 0, entered |-> 0,
                currentSiTarget |-> <<args.targetSi, 1>>,
                scaled |-> first, best |-> first,
                bestSiError |-> FAbsDiff(first.Si, <<args.targetSi, 1>>),
                calls |-> <<InitialCall(args)>>, computed |-> <<first>>]
      end == IF args.targetSi > 0 THEN SiLoop(start, args) ELSE start
      out == IF args.targetSi > 0 THEN end.best ELSE first
  IN  IF EcBlockEntered(args, milpResult.originalEC)
      THEN [value |-> [formula |-> [icl_pekacid_pk_acid |-> out.pek],
                       achieved |-> [Si |-> out.Si],
                       ecScaling |-> [scaleFactor |-> out.scaleFactor,
                                      originalEC |-> milpResult.originalEC,
                                      targetEC |-> args.targetEC,
                                      achievedEC |-> end.scaled.finalEC]],
            locals |-> [calls |-> end.calls, computed |-> end.computed,
                        siIterations |-> end.entered, returned |-> out]]
      ELSE [value |-> [formula |-> [icl_pekacid_pk_acid |-> milpResult.pek],
                       achieved |-> [Si |-> milpResult.Si]],
            locals |-> [calls |-> <<InitialCall(args)>>, computed |-> << >>,
                        siIterations |-> 0, returned |-> milpResult]]

(***************************************************************************)
(* A direct call of assignToTanks                                          *)
(***************************************************************************)
AssignToTanksCall ==
  /\ ~asgDone
  /\ asgTanks' = assignToTanks(asgFormula, asgNumTanks, asgSeparateMg)
  /\ asgDone' = TRUE
  /\ UNCHANGED <<asgFormula, asgNumTanks, asgSeparateMg, envVars, catalog, attemptVars, dosingVars, contribVars, siVars, nnlsVars, solverVars,
                 callers, plannerVars, optVars>>

\* Formulas given to assignToTanks: a pool with one fertilizer of each
\* (tag, K-dominant, P-bearing, Mg-bearing) class of the catalog and one id
\* that is not in the catalog.
AssignPool ==
  <<"calcium_nitrate_calcinit_typical", "urea_common",
    "magnesium_nitrate_hexahydrate_typical", "ssp_common",
    "potassium_nitrate_typical", "haifa_17_10_27", "phosphoric_acid_49",
    "map_typical", "mkp_typical", "potassium_silicate_liquid_typical",
    "ammonium_sulfate_common", "magnesium_sulfate_heptahydrate_common",
    "potassium_sulfate_common", "langbeinite_common", "invalid_id_xyz">>

\* An entry of a formula: a missing dose, a negative one, zero, a positive one.
EntriesOf(id) ==
  { [id |-> id], [id |-> id, grams |-> 0 - 100], [id |-> id, grams |-> 0],
    [id |-> id, grams |-> 150] }

RECURSIVE Ascending(_)
Ascending(S) ==
  IF S = {} THEN << >>
  ELSE LET m == CHOOSE x \in S : \A y \in S : x <= y
       IN  <<m>> \o Ascending(S \ {m})

FormulaInputs ==
  { <<e>> : e \in UNION {EntriesOf(id) : id \in FertIds \cup {"ssp_typical", "urea_liquid"}} }
  \cup
  UNION { LET idx == Ascending(S)
          IN  { f \in [1..Len(idx) -> UNION {EntriesOf(AssignPool[i]) : i \in S}] :
                  \A n \in 1..Len(idx) : f[n].id = AssignPool[idx[n]] }
          : S \in {T \in SUBSET (1..Len(AssignPool)) : Cardinality(T) <= MaxFormulaLen} }

(***************************************************************************)
(* optimizeFormula calls                                                   *)
(***************************************************************************)
NoArgs == [options |-> EmptyObj]

\* The problem of a call that doubles the volume unless it found the solver
\* cached.
MilpProblem_SeesModuleState(args) ==
  [fertilizers |-> args.availableFertilizers,
   targets |-> ppmTargets(args.targetRatios, args.concentration, args.mode,
                          args.options),
   volume |-> IF optFound = "cached" THEN args.volume ELSE 2 * args.volume]

\* What solveMilpBrowser hands to highs.solve.
MilpProblem(args) ==
  [fertilizers |-> args.availableFertilizers,
   targets |-> ppmTargets(args.targetRatios, args.concentration, args.mode,
                          args.options),
   volume |-> args.volume]

NoSolution == [solved |-> FALSE]

\* What highs.solve may answer: the primal values of a point that meets the
\* constraints, columns without a primal value (every dose reads as 0) when
\* there is no such point, or no solution at all.
SolverAnswers(problem) ==
  LET fertIds == {problem.fertilizers[i] : i \in 1..Len(problem.fertilizers)}
  IN  (IF MilpFeasible(fertIds, problem.targets, problem.volume)
       THEN {[solved |-> TRUE, primal |-> x] :
               x \in {y \in [fertIds -> OptPrimalValues] :
                        MilpConstraints(fertIds, problem.targets, problem.volume, y)}}
       ELSE {[solved |-> TRUE, primal |-> [id \in fertIds |-> 0]]})
      \cup {NoSolution}

\* The solver is deterministic: a problem it has answered before gets the
\* same answer.
SolverAnswersNow(problem) ==
  IF problem \in DOMAIN solverMemo THEN {solverMemo[problem]}
  ELSE SolverAnswers(problem)

\* Extends a memo table f by key |-> value.
Remember(f, key, value) ==
  [k \in DOMAIN f \cup {key} |-> IF k = key THEN value ELSE f[k]]

\* { formula, achieved } of solveMilpBrowser for the primal values.
MilpResult(primal, volume) ==
  [formula |-> MilpFormula(primal),
   achieved |-> AchievedOf(MilpFormula(primal), volume)]

\* Estimates the scaling loop may receive: each but the last is off the
\* target by 1% or more, and the last ends the loop.
EstimateRuns(targetEC) ==
  UNION { {e \in [1..n -> LoopEcValues] :
             /\ \A i \in 1..(n - 1) : ~WithinOnePercent(e[i], targetEC)
             /\ n < EcIterations => WithinOnePercent(e[n], targetEC)} :
          n \in 1..EcIterations }

\* estimateECFromPPM is a function of the profile: the profiles the call
\* passed to it, each with the estimate it got.
Estimated(achieved, originalEC, st) ==
  <<[profile |-> achieved, ec |-> originalEC]>> \o
  [j \in 1..Len(st.trail) |->
     [profile |-> ScaleAll(achieved, st.trail[j].factor), ec |-> st.trail[j].ec]]

EstimatesAgree(evals, memo) ==
  /\ \A i \in 1..Len(evals) :
       evals[i].profile \in DOMAIN memo => memo[evals[i].profile] = evals[i].ec
  /\ \A i, j \in 1..Len(evals) :
       evals[i].profile = evals[j].profile => evals[i].ec = evals[j].ec

RECURSIVE RememberAll(_, _)
RememberAll(memo, evals) ==
  IF evals = << >> THEN memo
  ELSE RememberAll(Remember(memo, Head(evals).profile, Head(evals).ec), Tail(evals))

\* A profile without any nutrient has no ions and the estimate 0.
BaseEstimates(achieved) ==
  IF \A n \in DOMAIN achieved : achieved[n] = <<0, 1>> THEN {0} ELSE BaseEcValues

\* The call has ended: its arguments, the module state it found, what it
\* threw or returned, and the locals of its scaling loop.
OptEntry(args, found, threw, value, locals) ==
  [args |-> args, found |-> found, threw |-> threw, value |-> value,
   locals |-> locals]

\* optimizeFormula is called: solveMilpBrowser throws without the LP model
\* library and else awaits getHighsInstance().
OptimizeFormulaCall(args) ==
  /\ optPc = "idle"
  /\ Len(optLog) < MaxOptCalls
  /\ optArgs' = args
  /\ optFound' = ModuleState
  /\ IF ~lpModel
     THEN /\ optLog' = Append(optLog,
                OptEntry(args, ModuleState, "MILP dependencies not loaded", EmptyObj, EmptyObj))
          /\ UNCHANGED <<optPc, optAwaiting, solverVars>>
     ELSE LET o == getHighsInstance
          IN  /\ ApplyGetHighs(o)
              /\ IF o.ret = "throw"
                 THEN /\ optLog' = Append(optLog,
                            OptEntry(args, ModuleState, "HiGHS solver not available", EmptyObj, EmptyObj))
                      /\ UNCHANGED <<optPc, optAwaiting>>
                 ELSE /\ optPc' = "awaitSolver"
                      /\ optAwaiting' = o.promise
                      /\ UNCHANGED optLog
  /\ UNCHANGED <<solverMemo, ecMemo, envVars, catalog, attemptVars, dosingVars, contribVars, siVars, nnlsVars, callers, plannerVars, assignVars>>

\* The rest of the call once the solver has answered with primal values.
OptimizeFormulaFinish(problem, milp, originalEC, st) ==
  /\ EstimatesAgree(Estimated(milp.achieved, originalEC, st), ecMemo)
  /\ ecMemo' = RememberAll(ecMemo, Estimated(milp.achieved, originalEC, st))
  /\ optLog' = Append(optLog,
        OptEntry(optArgs, optFound, "", optimizeFormulaReturn(optArgs.targetRatios, problem.targets,
                       milp, optArgs.options, originalEC, st),
                 [milp |-> milp, originalEC |-> originalEC, st |-> st]))

\* `await getHighsInstance()` resumes with an instance: the solver answers
\* and optimizeFormula runs to its end.
OptimizeFormulaResume ==
  /\ optPc = "awaitSolver"
  /\ IF optAwaiting = 0 THEN TRUE ELSE promiseState[optAwaiting] = "resolved"
  /\ optPc' = "idle"
  /\ optAwaiting' = 0
  /\ \E answer \in SolverAnswersNow(MilpProblem(optArgs)) :
       /\ solverMemo' = Remember(solverMemo, MilpProblem(optArgs), answer)
       /\ IF ~answer.solved
          THEN /\ optLog' = Append(optLog,
                     OptEntry(optArgs, optFound, "MILP solver failed", EmptyObj, EmptyObj))
               /\ UNCHANGED ecMemo
          ELSE \E originalEC \in BaseEstimates(MilpResult(answer.primal, optArgs.volume).achieved) :
                 IF EcScalingApplies(optArgs.options, originalEC)
                 THEN \E ests \in EstimateRuns(optArgs.options.targetEC) :
                        OptimizeFormulaFinish(MilpProblem(optArgs),
                          MilpResult(answer.primal, optArgs.volume), originalEC,
                          EcScaling(optArgs.options, originalEC, ests))
                 ELSE OptimizeFormulaFinish(MilpProblem(optArgs),
                        MilpResult(answer.primal, optArgs.volume), originalEC,
                        [trail |-> << >>, iterations |-> 0])
  /\ UNCHANGED <<optArgs, optFound, solverVars, envVars, catalog, attemptVars, dosingVars, contribVars, siVars, nnlsVars, callers, plannerVars,
                 assignVars>>

\* The solver initialisation the call awaits was rejected.
OptimizeFormulaRejected ==
  /\ optPc = "awaitSolver"
  /\ optAwaiting # 0
  /\ promiseState[optAwaiting] = "rejected"
  /\ optPc' = "idle"
  /\ optAwaiting' = 0
  /\ optLog' = Append(optLog,
        OptEntry(optArgs, optFound, "HiGHS initialisation failed", EmptyObj, EmptyObj))
  /\ UNCHANGED <<optArgs, optFound, solverMemo, ecMemo, solverVars, envVars, catalog, attemptVars, dosingVars, contribVars, siVars, nnlsVars,
                 callers, plannerVars, assignVars>>

\* Formulas the optimizer may hand to an attempt: doses of 0.05, 1.5 and
\* 20 g of fertilizers of low and high solubility.
AttemptPool ==
  <<"calcium_nitrate_calcinit_typical", "ssp_common", "potassium_nitrate_typical",
    "potassium_sulfate_common">>
AttemptGrams == {5, 150, 2000}
AttemptFormulas ==
  UNION { LET idx == Ascending(S)
          IN  { f \in [1..Len(idx) -> [id : {AttemptPool[i] : i \in S}, grams : AttemptGrams]] :
                  \A n \in 1..Len(idx) : f[n].id = AttemptPool[idx[n]] }
          : S \in {T \in SUBSET (1..Len(AttemptPool)) :
                     Cardinality(T) >= 1 /\ Cardinality(T) <= MaxFormulaLen} }
AttemptConcentrations == {5, 50, 100}

\* Arguments of an attempt: the targets of the call and, for each of them,
\* the outcome of the numeric part of solveDosing.
AttemptArgs ==
  { [numTanks |-> k, formula |-> f, stockConcentration |-> c, targets |-> t,
     searches |-> [i \in 1..Len(t) |-> s]] :
      k \in {2, 3, 4}, f \in AttemptFormulas, c \in AttemptConcentrations,
      t \in TargetLists \ {<< >>}, s \in SearchOutcomes }

(***************************************************************************)
(* One attempt from the formula of the optimizer on                        *)
(***************************************************************************)
\* _tryStockSolutionWithKTanks from the tank assignment to its return.
AttemptCall ==
  /\ ~atDone
  /\ atDone' = TRUE
  /\ atOut' =
       [effectiveConcentration |->
          EffectiveConcentration(atArgs.numTanks, atArgs.targets, atArgs.formula,
                                 atArgs.stockConcentration),
        attempt |->
          FinishAttempt(atArgs.numTanks, atArgs.targets, atArgs.formula,
                        atArgs.stockConcentration, 0, atArgs.searches)]
  /\ UNCHANGED <<atArgs, envVars, solverVars, callers, plannerVars, assignVars,
                 optVars, catalog, dosingVars, contribVars, siVars, nnlsVars>>

\* Tank sets of the solveDosing calls: no tank, an empty tank, one to five
\* tanks, and two tanks around an empty one.
TanksOf(contents) == [t \in {DosingTankOrder[i] : i \in 1..Len(contents)} |-> contents[CHOOSE i \in 1..Len(contents) : DosingTankOrder[i] = t]]
DosingTankPool ==
  { EmptyObj,
    TanksOf(<<{}>>),
    TanksOf(<<{"potassium_nitrate_typical"}>>),
    TanksOf(<<{"calcium_nitrate_calcinit_typical"}, {"potassium_nitrate_typical"}>>),
    TanksOf(<<{"calcium_nitrate_calcinit_typical"}, {}, {"potassium_nitrate_typical"}>>),
    TanksOf(<<{"calcium_nitrate_calcinit_typical"}, {"potassium_nitrate_typical"},
              {"mkp_typical"}>>),
    TanksOf(<<{"calcium_nitrate_calcinit_typical"}, {"potassium_nitrate_typical"},
              {"mkp_typical"}, {"magnesium_sulfate_heptahydrate_common"}>>),
    TanksOf(<<{"calcium_nitrate_calcinit_typical"}, {"potassium_nitrate_typical"},
              {"mkp_typical"}, {"magnesium_sulfate_heptahydrate_common"},
              {"potassium_sulfate_common"}>>) }

\* options of the calls: maxDosing missing, 7 mL/L and 5 mL/L
DosingOptionPool == { EmptyObj, [maxDosing |-> 70], [maxDosing |-> 50] }

\* Refinement steps the search may accept: none, one or two.
AcceptedRefinements(tankIds) ==
  IF Len(tankIds) < 2 THEN { << >> }
  ELSE { << >>,
         <<[tankId |-> tankIds[1], delta |-> -1]>>,
         <<[tankId |-> tankIds[2], delta |-> -3]>>,
         <<[tankId |-> tankIds[Len(tankIds)], delta |-> 1],
           [tankId |-> tankIds[1], delta |-> 3]>> }

\* bestDosing after Phase 1: a grid point of the extreme and the middle
\* ratio steps, refined or not.
Phase1Outcomes(tankIds) ==
  { Refined(d, acc) :
      d \in Phase1GridOver(tankIds, {<<1, 50>>, <<1, 2>>, <<1, 1>>, <<3, 2>>, <<50, 1>>},
                           {<<1, 10>>, <<1, 1>>, <<10, 1>>}, {<<1, 5>>, <<5, 1>>}),
      acc \in AcceptedRefinements(tankIds) }

\* Values of estimateECFromPPM in tenths of mS/cm, and an achieved profile
\* in ppm, of the Phase 1 dosing; EC values of the scaled dosing.
CurrentEcValues == { <<25, 1>>, <<293, 10>> }
ScaledEcValues == { <<12, 1>>, <<15, 1>>, <<17, 1>> }
Phase1Achieved == [n \in {"N", "P", "K", "Ca", "Mg", "S"} |-> IF n \in {"N", "K"} THEN <<150, 1>> ELSE FZero]

\* Outcomes of the numeric parts of a call.  A dosing that supplies nothing
\* has EC 0 and cannot match a ratio; with two tanks or more the search may
\* end without any dosing (every ratio error Infinity).
DosingNumerics(tankIds) ==
  { [bestDosing |-> d, achieved |-> Phase1Achieved, currentEC |-> c, scaledEC |-> e,
     ratioMatches |-> m] :
      d \in Phase1Outcomes(tankIds), c \in CurrentEcValues, e \in ScaledEcValues,
      m \in BOOLEAN }
  \cup { [bestDosing |-> d, achieved |-> ZeroProfile, currentEC |-> FZero,
          scaledEC |-> FZero, ratioMatches |-> FALSE] :
           d \in Phase1GridOver(tankIds, {<<1, 1>>}, {<<1, 1>>}, {<<1, 1>>})
                  \cup (IF Len(tankIds) >= 2 THEN {EmptyObj} ELSE {}) }

NoNumerics == [bestDosing |-> EmptyObj, achieved |-> ZeroProfile, currentEC |-> FZero, scaledEC |-> FZero, ratioMatches |-> FALSE]

\* Arguments of the solveDosing calls; a call that returns early has no
\* numeric part.
DosingArgs ==
  UNION { { [tanks |-> tk, target |-> tg, options |-> o, num |-> n] :
              o \in DosingOptionPool,
              n \in (IF NonEmptyTankIds(tk) = << >>
                        \/ tg.targetEC - (IF "baselineEC" \in DOMAIN tg THEN tg.baselineEC ELSE 0) <= 0
                     THEN {NoNumerics} ELSE DosingNumerics(NonEmptyTankIds(tk))) } :
          tk \in DosingTankPool, tg \in TargetPool }

(***************************************************************************)
(* One solveDosing call                                                    *)
(***************************************************************************)
DosingCall ==
  /\ ~sdDone
  /\ sdDone' = TRUE
  /\ sdOut' = solveDosingPhases(sdArgs.tanks, sdArgs.target, sdArgs.options, sdArgs.num)
  /\ UNCHANGED <<sdArgs, envVars, solverVars, callers, plannerVars, assignVars,
                 optVars, catalog, attemptVars, contribVars, siVars, nnlsVars>>

(***************************************************************************)
(* Specifications                                                          *)
(***************************************************************************)
SolverFresh ==
  /\ cachedHighsInstance = 0
  /\ highsLoadingPromise = 0
  /\ promiseState = [p \in PromiseIds |-> "unused"]
  /\ factoryCalls = 0
  /\ everCached = {}

PlannerIdle ==
  /\ pc = "idle"
  /\ options = [stockConcentration |-> 100]
  /\ numTanks = 0
  /\ attemptsStarted = << >>
  /\ attemptLog = << >>
  /\ optimizerCalls = 0
  /\ optimizerLog = << >>
  /\ awaiting = 0
  /\ result = NoResult
  /\ thrown = NoError
  /\ dosingResults = << >>

AssignIdle ==
  /\ asgFormula = << >>
  /\ asgNumTanks = 2
  /\ asgSeparateMg = FALSE
  /\ asgTanks = EmptyObj
  /\ asgDone = FALSE

OptIdle ==
  /\ optPc = "idle"
  /\ optArgs = NoArgs
  /\ optFound = "empty"
  /\ optAwaiting = 0
  /\ optLog = << >>
  /\ solverMemo = EmptyObj
  /\ ecMemo = EmptyObj

CatalogLoaded == catalog = FERTILIZERS

AttemptIdle ==
  /\ atArgs = EmptyObj
  /\ atOut = EmptyObj
  /\ atDone = FALSE

DosingIdle ==
  /\ sdArgs = EmptyObj
  /\ sdOut = EmptyObj
  /\ sdDone = FALSE

ContribIdle ==
  /\ cgFert = EmptyObj
  /\ cgVolume = 1
  /\ cgOut = EmptyObj
  /\ cgDone = FALSE

SiIdle ==
  /\ siArgs = EmptyObj
  /\ siOut = EmptyObj
  /\ siDone = FALSE

NnlsIdle ==
  /\ nnArgs = EmptyObj
  /\ nnOut = EmptyObj
  /\ nnDone = FALSE

\* The planner: one calculateStockSolutions call with its solver backend.
Init ==
  /\ highsFactory \in BOOLEAN
  /\ lpModel \in BOOLEAN
  /\ SolverFresh
  /\ callers = [c \in Callers |-> IdleCaller]
  /\ PlannerIdle
  /\ AssignIdle
  /\ OptIdle
  /\ CatalogLoaded
  /\ AttemptIdle
  /\ DosingIdle
  /\ ContribIdle
  /\ SiIdle
  /\ NnlsIdle

Next ==
  \/ \E opts \in OptionChoices : calculateStockSolutions(opts)
  \/ ResumeAttempt
  \/ SolverReturnsNothing
  \/ SolverInitRejected
  \/ \E p \in PromiseIds : FactoryResolve(p)
  \/ \E p \in PromiseIds : FactoryReject(p)

Spec == Init /\ [][Next]_vars

\* The solver cache under concurrent callers.
InitHighs ==
  /\ highsFactory \in BOOLEAN
  /\ lpModel = TRUE
  /\ SolverFresh
  /\ callers = [c \in Callers |-> IdleCaller]
  /\ PlannerIdle
  /\ AssignIdle
  /\ OptIdle
  /\ CatalogLoaded
  /\ AttemptIdle
  /\ DosingIdle
  /\ ContribIdle
  /\ SiIdle
  /\ NnlsIdle

NextHighs ==
  \/ \E c \in Callers : CallGetHighsInstance(c)
  \/ \E c \in Callers : CallPreloadHighsSolver(c)
  \/ \E c \in Callers : CallerResume(c)
  \/ \E c \in Callers : CallerReturn(c)
  \/ \E p \in PromiseIds : FactoryResolve(p)
  \/ \E p \in PromiseIds : FactoryReject(p)

SpecHighs == InitHighs /\ [][NextHighs]_vars

\* assignToTanks as a pure function of its arguments.
InitAssign ==
  /\ highsFactory = TRUE
  /\ lpModel = TRUE
  /\ SolverFresh
  /\ callers = [c \in Callers |-> IdleCaller]
  /\ PlannerIdle
  /\ asgFormula \in FormulaInputs
  /\ asgNumTanks \in {2, 3, 4}
  /\ asgSeparateMg \in BOOLEAN
  /\ asgTanks = EmptyObj
  /\ asgDone = FALSE
  /\ OptIdle
  /\ CatalogLoaded
  /\ AttemptIdle
  /\ DosingIdle
  /\ ContribIdle
  /\ SiIdle
  /\ NnlsIdle

NextAssign == AssignToTanksCall

SpecAssign == InitAssign /\ [][NextAssign]_vars

\* optimizeFormula calls, one after the other, with the solver backend and
\* a page that may preload the solver.
InitOpt ==
  /\ highsFactory \in BOOLEAN
  /\ lpModel \in BOOLEAN
  /\ SolverFresh
  /\ callers = [c \in Callers |-> IdleCaller]
  /\ PlannerIdle
  /\ AssignIdle
  /\ OptIdle
  /\ CatalogLoaded
  /\ AttemptIdle
  /\ DosingIdle
  /\ ContribIdle
  /\ SiIdle
  /\ NnlsIdle

NextOpt ==
  \/ \E args \in OptArgsPool : OptimizeFormulaCall(args)
  \/ OptimizeFormulaResume
  \/ OptimizeFormulaRejected
  \/ CallPreloadHighsSolver(1)
  \/ \E p \in PromiseIds : FactoryResolve(p)
  \/ \E p \in PromiseIds : FactoryReject(p)

SpecOpt == InitOpt /\ [][NextOpt]_vars

\* One attempt as a function of the formula the optimizer returned.
InitAttempt ==
  /\ highsFactory = TRUE
  /\ lpModel = TRUE
  /\ SolverFresh
  /\ callers = [c \in Callers |-> IdleCaller]
  /\ PlannerIdle
  /\ AssignIdle
  /\ OptIdle
  /\ CatalogLoaded
  /\ atArgs \in AttemptArgs
  /\ atOut = EmptyObj
  /\ atDone = FALSE
  /\ DosingIdle
  /\ ContribIdle
  /\ SiIdle
  /\ NnlsIdle

NextAttempt == AttemptCall

SpecAttempt == InitAttempt /\ [][NextAttempt]_vars

\* One solveDosing call as a function of its arguments and of the outcomes
\* of its numeric parts.
InitDosing ==
  /\ highsFactory = TRUE
  /\ lpModel = TRUE
  /\ SolverFresh
  /\ callers = [c \in Callers |-> IdleCaller]
  /\ PlannerIdle
  /\ AssignIdle
  /\ OptIdle
  /\ CatalogLoaded
  /\ AttemptIdle
  /\ sdArgs \in DosingArgs
  /\ sdOut = EmptyObj
  /\ sdDone = FALSE
  /\ ContribIdle
  /\ SiIdle
  /\ NnlsIdle

NextDosing == DosingCall

SpecDosing == InitDosing /\ [][NextDosing]_vars

\* The per-gram contribution of one catalog fertilizer, as each component
\* of the program computes it.
ContributionCall ==
  /\ ~cgDone
  /\ cgDone' = TRUE
  /\ cgOut' = [milp |-> perGramContrib(cgFert, cgVolume),
               achieved |-> achievedPerGram(cgFert, cgVolume),
               planner |-> getElementalContributionPerGram(cgFert)]
  /\ UNCHANGED <<cgFert, cgVolume, envVars, solverVars, callers, plannerVars, assignVars,
                 optVars, catalog, attemptVars, dosingVars, siVars, nnlsVars>>

\* Volumes of the formulas the optimizer is asked for, in litres.
ContribVolumes == {1, 2}

InitContrib ==
  /\ highsFactory = TRUE
  /\ lpModel = TRUE
  /\ SolverFresh
  /\ callers = [c \in Callers |-> IdleCaller]
  /\ PlannerIdle
  /\ AssignIdle
  /\ OptIdle
  /\ CatalogLoaded
  /\ AttemptIdle
  /\ DosingIdle
  /\ cgFert \in {FERTILIZERS[i] : i \in 1..Len(FERTILIZERS)}
  /\ cgVolume \in ContribVolumes
  /\ cgOut = EmptyObj
  /\ cgDone = FALSE
  /\ SiIdle
  /\ NnlsIdle

NextContrib == ContributionCall

SpecContrib == InitContrib /\ [][NextContrib]_vars

\* One optimizeFormula call, from its first solveMilpBrowser call to its
\* return.
SiCall ==
  /\ ~siDone
  /\ siDone' = TRUE
  /\ siOut' = optimizeFormulaSi(siArgs)
  /\ UNCHANGED <<siArgs, envVars, solverVars, callers, plannerVars, assignVars,
                 optVars, catalog, attemptVars, dosingVars, contribVars, nnlsVars>>

\* Base estimates of the solves of a call, in hundredths of mS/cm: each 0
\* or 0.20, a run in which every re-solve has a lower estimate than the
\* one before, and a run with estimates below the target EC.
OrigSeqs ==
  [1..(1 + SiIterations) -> {0, 20}]
    \cup {<<50, 40, 32, 25, 20, 20>>, <<5, 5, 5, 5, 5, 5>>}

\* PeKacid doses the solver chooses, in hundredths of g.
PekDoses == {0, 55, 110}

InitSi ==
  /\ highsFactory = TRUE
  /\ lpModel = TRUE
  /\ SolverFresh
  /\ callers = [c \in Callers |-> IdleCaller]
  /\ PlannerIdle
  /\ AssignIdle
  /\ OptIdle
  /\ CatalogLoaded
  /\ AttemptIdle
  /\ DosingIdle
  /\ ContribIdle
  /\ \E targetSi \in {0, 25}, targetEC \in {0, 10}, limit \in {0, 55} :
     \E first, later \in PekDoses, origs \in OrigSeqs :
     \E ests \in {<<10>>, <<20, 20, 20, 20, 20>>} :
       \* model.addConstr([[1, x[PEKACID_ID]]], '<=', pekacidTargetGrams)
       /\ limit > 0 => first <= limit
       /\ siArgs = [targetSi |-> targetSi, targetEC |-> targetEC,
                    pekacidMaxLimit |-> limit, volume |-> 1,
                    script |-> [pek |-> [j \in 1..(1 + SiIterations) |->
                                           IF j = 1 THEN first ELSE later],
                                origs |-> origs, ests |-> ests]]
  /\ siOut = EmptyObj
  /\ siDone = FALSE
  /\ NnlsIdle

NextSi == SiCall

SpecSi == InitSi /\ [][NextSi]_vars

(***************************************************************************)
(* Standalone solver: non-negative least squares, subset search, pruning   *)
(***************************************************************************)
\* Doses are whole grams and contributions whole ppm per gram, so a dose is
\* above 1e-4 g exactly when it is positive; fertilizer and nutrient
\* indices count from 1.

\* (w[j] * w[j]) in hundredths: weight 1 of a targeted nutrient, softWeight
\* 0.1 of the others, 1 for all of them when nothing is targeted.
SquaredWeights(targetVector) ==
  [j \in 1..Len(targetVector) |->
     IF targetVector[j] > 0 \/ \A k \in 1..Len(targetVector) : targetVector[k] <= 0
     THEN 100 ELSE 1]

RECURSIVE AchievedAt(_, _, _, _)
AchievedAt(rows, x, j, k) ==
  IF k = 0 THEN 0 ELSE rows[k][j] * x[k] + AchievedAt(rows, x, j, k - 1)

\* achieved[j] += row[j] * xi over the rows
computeAchieved(rows, x, cols) ==
  [j \in 1..cols |-> AchievedAt(rows, x, j, Len(x))]

\* error += scaled * scaled, in hundredths
RECURSIVE WeightedError(_, _, _, _)
WeightedError(achieved, target, w2, j) ==
  IF j = 0 THEN 0
  ELSE (achieved[j] - target[j]) * (achieved[j] - target[j]) * w2[j]
       + WeightedError(achieved, target, w2, j - 1)

\* The rows of the matrix at the indices, in their order.
RowsAt(matrix, indices) == [p \in 1..Len(indices) |-> matrix[indices[p]]]

\* solveNonNegativeLeastSquares with a positive iterations argument.  The
\* first pass of the loop records the iterate x = 0 and the loop makes a
\* pass while iter < iterations, so up to iterations = 1 the best iterate
\* is x = 0; for a longer run it is the iterate `answer` the numeric
\* descent found, and the error returned is the error of that iterate.
solveNonNegativeLeastSquares(rows, target, iterations, w2, answer) ==
  IF Len(rows) = 0 \/ Len(target) = 0 THEN [x |-> << >>, error |-> 0]
  ELSE LET x == IF FLeq(iterations, <<1, 1>>) THEN [i \in 1..Len(rows) |-> 0]
                ELSE answer
       IN  [x |-> x,
            error |-> WeightedError(computeAchieved(rows, x, Len(target)),
                                    target, w2, Len(target))]

\* What a comparison makes of its operand: a number is itself, an array of
\* fertilizer objects is NaN (its string is not a numeral), an empty array 0.
NaN == <<0, 0>>
ToNumber(v) ==
  IF v.kind = "number" THEN v.value
  ELSE IF v.length = 0 THEN <<0, 1>> ELSE NaN

\* a > b of two numbers, false when one of them is NaN
Greater(a, b) == a[2] # 0 /\ b[2] # 0 /\ FLess(b, a)

\* Math.abs(achieved[j] - target) / target
RelDiff(achieved, target, j) == Frac(Abs(achieved[j] - target[j]), target[j])

\* withinTolerance of pruneSolution: false as soon as diff > tolerance
withinTolerance(achieved, target, tolerance) ==
  \A j \in 1..Len(target) :
    target[j] > 0 => ~Greater(RelDiff(achieved, target, j), ToNumber(tolerance))

\* indices without the one at position p
Without(indices, p) ==
  [q \in 1..(Len(indices) - 1) |-> IF q < p THEN indices[q] ELSE indices[q + 1]]

\* the candidate of removing the index at position p of the active ones
PruneCandidate(matrix, target, w2, tolerance, iterations, answers, active, p) ==
  LET remaining == Without(active, p)
      reducedSolution == solveNonNegativeLeastSquares(RowsAt(matrix, remaining),
                           target, iterations, w2, answers[remaining])
      fullX == [i \in 1..Len(matrix) |->
                  IF \E q \in 1..Len(remaining) : remaining[q] = i
                  THEN reducedSolution.x[CHOOSE q \in 1..Len(remaining) : remaining[q] = i]
                  ELSE 0]
  IN  [x |-> fullX, error |-> reducedSolution.error, active |-> remaining,
       within |-> withinTolerance(computeAchieved(matrix, fullX, Len(target)),
                                  target, tolerance)]

\* bestCandidate after the first k active indices were tried: << >> is null
RECURSIVE BestCandidate(_, _)
BestCandidate(cands, k) ==
  IF k = 0 THEN << >>
  ELSE LET prev == BestCandidate(cands, k - 1)
           c == cands[k]
       IN  IF c.within
              /\ (prev = << >>
                  \/ Len(c.active) < Len(prev[1].active)
                  \/ (Len(c.active) = Len(prev[1].active) /\ c.error < prev[1].error))
           THEN << [x |-> c.x, error |-> c.error, active |-> c.active] >>
           ELSE prev

\* while (improved && activeIndices.length > 1): one pass per round, with
\* the active indices after every accepted round.
RECURSIVE PruneLoop(_, _, _, _, _, _, _, _)
PruneLoop(matrix, target, w2, tolerance, iterations, answers, best, rounds) ==
  IF Len(best.active) <= 1 THEN [value |-> best, rounds |-> rounds]
  ELSE LET cands == [p \in 1..Len(best.active) |->
                       PruneCandidate(matrix, target, w2, tolerance, iterations,
                                      answers, best.active, p)]
           bestCandidate == BestCandidate(cands, Len(cands))
       IN  IF bestCandidate = << >> THEN [value |-> best, rounds |-> rounds]
           ELSE PruneLoop(matrix, target, w2, tolerance, iterations, answers,
                          bestCandidate[1], Append(rounds, bestCandidate[1].active))

\* the indices with grams > 1e-4, ascending
ActiveIndices(x) == Ascending({i \in 1..Len(x) : x[i] > 0})

\* pruneSolution of the standalone solver: six parameters
pruneSolution(matrix, targetVector, w2, baseSolution, tolerance, iterations, answers) ==
  PruneLoop(matrix, targetVector, w2, tolerance, iterations, answers,
            [x |-> baseSolution.x, error |-> baseSolution.error,
             active |-> ActiveIndices(baseSolution.x)], << >>)

\* window.FertilizerCore.pruneSolution: the same body after a fertilizers
\* parameter the body does not read
FertilizerCore_pruneSolution(matrix, targetVector, w2, baseSolution, fertilizers, tolerance, iterations, answers) ==
  PruneLoop(matrix, targetVector, w2, tolerance, iterations, answers,
            [x |-> baseSolution.x, error |-> baseSolution.error,
             active |-> ActiveIndices(baseSolution.x)], << >>)

\* err of evaluateSolution: squared relative differences of the targeted
\* nutrients plus 1e-6 times the squared amounts of the others
RECURSIVE RelativeError(_, _, _)
RelativeError(achievedVec, target, j) ==
  IF j = 0 THEN <<0, 1>>
  ELSE FAdd(RelativeError(achievedVec, target, j - 1),
            IF target[j] > 0
            THEN Frac((achievedVec[j] - target[j]) * (achievedVec[j] - target[j]),
                      target[j] * target[j])
            ELSE Frac(achievedVec[j] * achievedVec[j], 1000000))

\* The combos choose(start, depth, []) reaches with depth === 0, in the
\* order it reaches them.
RECURSIVE Combos(_, _, _)
Combos(start, depth, n) ==
  IF depth = 0 THEN << << >> >>
  ELSE IF start > n - depth + 1 THEN << >>
  ELSE LET tails == Combos(start + 1, depth - 1, n)
       IN  [k \in 1..Len(tails) |-> <<start>> \o tails[k]] \o Combos(start + 1, depth, n)

\* The body of choose at depth === 0 for one combo: s holds best and
\* bestWithin (<< >> is null) and the combos solved so far.
Examine(matrix, target, w2, pruneTolerance, answers, combo, s) ==
  LET solution == solveNonNegativeLeastSquares(RowsAt(matrix, combo), target,
                    <<2000, 1>>, w2, answers[combo])
      achievedVec == computeAchieved(RowsAt(matrix, combo), solution.x, Len(target))
      err == RelativeError(achievedVec, target, Len(target))
      usedCount == Cardinality({p \in 1..Len(solution.x) : solution.x[p] > 0})
      withinTol == \A j \in 1..Len(target) :
                     target[j] <= 0 \/ FLeq(RelDiff(achievedVec, target, j), pruneTolerance)
      entry == [sol |-> [solution |-> solution, indices |-> combo],
                err |-> err, usedCount |-> usedCount]
      Preferred(b) == \/ b = << >>
                      \/ usedCount < b[1].usedCount
                      \/ (usedCount = b[1].usedCount /\ FLess(err, b[1].err))
  IN  [best |-> IF Preferred(s.best) THEN <<entry>> ELSE s.best,
       bestWithin |-> IF withinTol /\ Preferred(s.bestWithin) THEN <<entry>>
                      ELSE s.bestWithin,
       examined |-> Append(s.examined, combo),
       sizes |-> s.sizes]

RECURSIVE ExamineAll(_, _, _, _, _, _, _, _)
ExamineAll(matrix, target, w2, pruneTolerance, answers, combos, k, s) ==
  IF k = 0 THEN s
  ELSE Examine(matrix, target, w2, pruneTolerance, answers, combos[k],
               ExamineAll(matrix, target, w2, pruneTolerance, answers, combos, k - 1, s))

\* availableFertilizers.length <= 8 and Math.min(4, availableFertilizers.length)
ExhaustiveLimit == 8
MaxComboSize == 4

\* for (let size = 1; size <= maxCombo; size++) { choose(0, size, []);
\*   if (best && best.usedCount === size) break; }
RECURSIVE SizeLoop(_, _, _, _, _, _, _)
SizeLoop(matrix, target, w2, pruneTolerance, answers, size, s) ==
  IF size > MaxComboSize \/ size > Len(matrix) THEN s
  ELSE LET combos == Combos(1, size, Len(matrix))
           after == ExamineAll(matrix, target, w2, pruneTolerance, answers, combos,
                               Len(combos), [s EXCEPT !.sizes = Append(@, size)])
       IN  IF after.best # << >> /\ after.best[1].usedCount = size THEN after
           ELSE SizeLoop(matrix, target, w2, pruneTolerance, answers, size + 1, after)

\* addFertilizer for every dose above 1e-4 g of a solution: the dose at
\* position pos goes to the fertilizer finalIndices[pos], to the fertilizer
\* pos where finalIndices has no such position.  Grams 0: not in the formula.
AddAll(x, finalIndices, n) ==
  LET fertIdx == [pos \in 1..Len(x) |->
                    IF pos <= Len(finalIndices) THEN finalIndices[pos] ELSE pos]
  IN  [i \in 1..n |->
         SumOver([pos \in 1..Len(x) |-> IF fertIdx[pos] = i THEN x[pos] ELSE 0],
                 1..Len(x))]

\* optimizeFormula of the standalone solver from its matrix on: the subset
\* search, the pruned full solve when the search kept no subset within
\* tolerance, the unpruned full solve when the formula stayed empty.
optimizeFormulaNnls(args) ==
  LET matrix == args.matrix
      target == args.targetVector
      n == Len(matrix)
      w2 == SquaredWeights(target)
      start == [best |-> << >>, bestWithin |-> << >>, examined |-> << >>, sizes |-> << >>]
      searched == IF n <= ExhaustiveLimit
                  THEN SizeLoop(matrix, target, w2, args.pruneTolerance,
                                args.answers, 1, start)
                  ELSE start
      baseSolution == solveNonNegativeLeastSquares(matrix, target, <<1500, 1>>, w2,
                                                   args.base)
      \* pruneSolution(matrix, targetVector, weights, baseSolution,
      \*               availableFertilizers, pruneTolerance, 800)
      pruned == pruneSolution(matrix, target, w2, baseSolution,
                              [kind |-> "array", length |-> n],
                              args.pruneTolerance, args.answers)
      chosenWithin == searched.bestWithin # << >>
      finalX == IF chosenWithin THEN searched.bestWithin[1].sol.solution.x
                ELSE pruned.value.x
      finalIndices == IF chosenWithin THEN searched.bestWithin[1].sol.indices
                      ELSE pruned.value.active
      added == AddAll(finalX, finalIndices, n)
      formula == IF \A i \in 1..n : added[i] = 0
                 THEN AddAll(baseSolution.x, << >>, n)
                 ELSE added
  IN  [call |-> "optimizeFormula",
       value |-> [formula |-> formula,
                  achieved |-> computeAchieved(matrix, formula, Len(target))],
       locals |-> [sizes |-> searched.sizes, examined |-> searched.examined,
                   best |-> searched.best, bestWithin |-> searched.bestWithin,
                   pruneCalled |-> ~chosenWithin,
                   baseSolution |-> baseSolution,
                   pruned |-> pruned.value, rounds |-> pruned.rounds]]

\* One optimizeFormula call of the standalone solver.
FallbackCall ==
  /\ ~nnDone
  /\ nnDone' = TRUE
  /\ nnOut' = optimizeFormulaNnls(nnArgs)
  /\ UNCHANGED <<nnArgs, envVars, solverVars, callers, plannerVars, assignVars,
                 optVars, catalog, attemptVars, dosingVars, contribVars, siVars>>

\* One window.FertilizerCore.pruneSolution call with the base solution of
\* the full matrix, a numeric tolerance and the default 800 iterations.
PruneCall ==
  /\ ~nnDone
  /\ nnDone' = TRUE
  /\ LET w2 == SquaredWeights(nnArgs.targetVector)
         baseSolution == solveNonNegativeLeastSquares(nnArgs.matrix,
                           nnArgs.targetVector, <<1500, 1>>, w2, nnArgs.base)
         pruned == FertilizerCore_pruneSolution(nnArgs.matrix, nnArgs.targetVector,
                     w2, baseSolution, Len(nnArgs.matrix),
                     [kind |-> "number", value |-> nnArgs.pruneTolerance],
                     <<800, 1>>, nnArgs.answers)
     IN  nnOut' = [call |-> "pruneSolution", value |-> pruned.value,
                   locals |-> [baseSolution |-> baseSolution,
                               rounds |-> pruned.rounds]]
  /\ UNCHANGED <<nnArgs, envVars, solverVars, callers, plannerVars, assignVars,
                 optVars, catalog, attemptVars, dosingVars, contribVars, siVars>>

\* Contribution matrices of three fertilizers over two nutrients, in ppm per
\* gram: two with one nutrient each and a third with both, and three with
\* one nutrient each.
NnMatrices ==
  { << <<2, 0>>, <<0, 2>>, <<2, 2>> >>,
    << <<2, 0>>, <<0, 2>>, <<2, 0>> >> }

\* Target vectors: the targeted nutrients come first.
NnTargets == { <<2, 2>>, <<2, 0>> }

\* options.pruneTolerance: the default 0.01
NnTolerances == { <<1, 100>> }

\* Doses the numeric descent stops at, in g.
NnDoses == {0, 1}

\* The best iterate has an error no greater than that of the first one, x = 0.
NoWorseThanZero(matrix, indices, target, x) ==
  LET rows == RowsAt(matrix, indices)
      w2 == SquaredWeights(target)
      zeros == [i \in 1..Len(rows) |-> 0]
  IN  WeightedError(computeAchieved(rows, x, Len(target)), target, w2, Len(target))
        <= WeightedError(computeAchieved(rows, zeros, Len(target)), target, w2, Len(target))

\* The iterate of the descent for every subset of the three fertilizers.
NnAnswers(a1, a2, a3) ==
  [c \in {<<1>>, <<2>>, <<3>>, <<1, 2>>, <<1, 3>>, <<2, 3>>, <<1, 2, 3>>} |->
     IF Len(c) = 1 THEN a1[c] ELSE IF Len(c) = 2 THEN a2[c] ELSE a3]

InitNnls ==
  /\ highsFactory = TRUE
  /\ lpModel = TRUE
  /\ SolverFresh
  /\ callers = [c \in Callers |-> IdleCaller]
  /\ PlannerIdle
  /\ AssignIdle
  /\ OptIdle
  /\ CatalogLoaded
  /\ AttemptIdle
  /\ DosingIdle
  /\ ContribIdle
  /\ SiIdle
  /\ \E matrix \in NnMatrices, target \in NnTargets, tol \in NnTolerances :
     \E a1 \in {a \in [{<<1>>, <<2>>, <<3>>} -> [1..1 -> NnDoses]] :
                  \A c \in DOMAIN a : NoWorseThanZero(matrix, c, target, a[c])} :
     \E a2 \in {a \in [{<<1, 2>>, <<1, 3>>, <<2, 3>>} -> [1..2 -> NnDoses]] :
                  \A c \in DOMAIN a : NoWorseThanZero(matrix, c, target, a[c])} :
     \E a3, base \in {x \in [1..3 -> NnDoses] :
                        NoWorseThanZero(matrix, <<1, 2, 3>>, target, x)} :
       nnArgs = [matrix |-> matrix, targetVector |-> target, pruneTolerance |-> tol,
                 answers |-> NnAnswers(a1, a2, a3), base |-> base]
  /\ nnOut = EmptyObj
  /\ nnDone = FALSE

NextNnls ==
  \/ FallbackCall
  \/ PruneCall

SpecNnls == InitNnls /\ [][NextNnls]_vars

(***************************************************************************)
(* Properties                                                              *)
(***************************************************************************)
PendingPromises == {p \in PromiseIds : promiseState[p] = "pending"}

C1_State ==
  /\ Cardinality(PendingPromises) <= 1
  /\ Cardinality(everCached) <= 1
  /\ highsLoadingPromise # 0 => PendingPromises = {highsLoadingPromise}
  /\ cachedHighsInstance # 0 => everCached = {cachedHighsInstance}
  /\ \A c \in Callers :
       callers[c].pc = "got" => callers[c].value = cachedHighsInstance

C1_Step ==
  \A c \in Callers :
    (callers[c].pc = "idle" /\ callers'[c].pc # "idle") =>
      /\ highsLoadingPromise # 0 =>
           /\ factoryCalls' = factoryCalls
           /\ highsLoadingPromise' = highsLoadingPromise
           /\ ~callers'[c].started
           /\ callers'[c].op = "get" =>
                /\ callers'[c].pc = "waiting"
                /\ callers'[c].promise = highsLoadingPromise
      /\ cachedHighsInstance # 0 =>
           /\ factoryCalls' = factoryCalls
           /\ ~callers'[c].started
           /\ callers'[c].op = "get" =>
                /\ callers'[c].pc = "got"
                /\ callers'[c].value = cachedHighsInstance

\* C1: under every interleaving of getHighsInstance / preloadHighsSolver
\* calls, at most one factory promise is pending and at most one instance is
\* ever cached; a call that finds an initialisation pending starts no factory
\* invocation (getHighsInstance returns that pending promise), and a call
\* that finds the cached instance starts none either (getHighsInstance
\* returns the cached instance).
C1_SingleInitialisation == [](C1_State) /\ [][C1_Step]_vars

\* One caller joined a pending initialisation and got its instance, another
\* arrived after it resolved and got the cached instance.
C1_Witness ==
  \E c1, c2 \in Callers :
    /\ c1 # c2
    /\ callers[c1].op = "get" /\ callers[c1].found = "loading"
    /\ callers[c1].pc = "got"
    /\ callers[c2].op = "get" /\ callers[c2].found = "cached"
    /\ callers[c2].pc = "got"

\* C2: the attempts run for K = 2, 3, 4 in that order, one at a time; every
\* attempt before the last one failed with an error-level issue; the call
\* returns after the first attempt without error-level issue, or after the
\* K = 4 attempt, and the value returned is that attempt's result (a failure
\* carries errors).
C2_ProgressiveOrder ==
  /\ Len(attemptsStarted) <= 3
  /\ \A i \in 1..Len(attemptsStarted) : attemptsStarted[i] = i + 1
  /\ Len(attemptLog) <= Len(attemptsStarted)
  /\ Len(attemptsStarted) <= Len(attemptLog) + 1
  /\ \A i \in 1..Len(attemptLog) :
       /\ attemptLog[i].numTanks = i + 1
       /\ i < Len(attemptLog) =>
            ~attemptLog[i].success /\ attemptLog[i].producedError
       /\ i < Len(attemptsStarted) =>
            ~attemptLog[i].success /\ attemptLog[i].producedError
  /\ (pc = "returned" /\ attemptsStarted # << >>) =>
       /\ Len(attemptLog) = Len(attemptsStarted)
       /\ LET last == attemptLog[Len(attemptLog)]
          IN  /\ last.success \/ last.numTanks = 4
              /\ last.success <=> ~last.producedError
              /\ result.success = last.success
              /\ ~result.success =>
                   /\ result.errors # << >>
                   /\ \A j \in 1..Len(result.errors) :
                        result.errors[j].level = "error"
  /\ (pc = "awaitSolver" /\ attemptLog # << >>) =>
       /\ ~attemptLog[Len(attemptLog)].success
       /\ numTanks = attemptLog[Len(attemptLog)].numTanks + 1

\* All three attempts failed and the call returned the K = 4 failure.
C2_Witness ==
  /\ pc = "returned"
  /\ attemptsStarted = <<2, 3, 4>>
  /\ Len(attemptLog) = 3
  /\ ~result.success

\* C3: when the 2-tank attempt succeeds the call returns its plan, whose
\* tanks are among A and B, and no attempt with K = 3 or K = 4 is started.
C3_TwoTankMinimality ==
  (attemptLog # << >> /\ attemptLog[1].success) =>
    /\ pc = "returned"
    /\ attemptsStarted = <<2>>
    /\ Len(attemptLog) = 1
    /\ result.success
    /\ DOMAIN result.tanks \subseteq {"A", "B"}
    /\ result.meta.numTanks <= 2

\* A 2-tank plan with both tanks A and B in use was returned.
C3_Witness ==
  /\ pc = "returned"
  /\ result.success
  /\ attemptsStarted = <<2>>
  /\ DOMAIN result.tanks = {"A", "B"}
  /\ Len(options.targets) = 2

Incompatible == {"sulfate", "phosphate", "silicate"}

\* C4: in the assignment assignToTanks returns, for K in {2,3,4} and either
\* separateMg, no tank holds a calcium-tagged fertilizer together with a
\* sulfate-, phosphate- or silicate-tagged one; calcium-tagged fertilizers
\* are only in tank A and tank A holds nothing else.
C4_Compatibility ==
  asgDone =>
    \A t \in DOMAIN asgTanks :
      /\ \A f, g \in DOMAIN asgTanks[t] :
           ~(getCompatibilityTag(f) = "calcium"
             /\ getCompatibilityTag(g) \in Incompatible)
      /\ \A f \in DOMAIN asgTanks[t] :
           (getCompatibilityTag(f) = "calcium") <=> (t = "A")

\* A calcium source and a magnesium sulfate were assigned with separateMg
\* on four tanks: tank A holds the first, tank D the second.
C4_Witness ==
  /\ asgDone
  /\ asgNumTanks = 4
  /\ asgSeparateMg
  /\ DOMAIN asgTanks["A"] = {"calcium_nitrate_calcinit_typical"}
  /\ DOMAIN asgTanks["D"] = {"magnesium_sulfate_heptahydrate_common"}

TanksHolding(id) == {t \in DOMAIN asgTanks : id \in DOMAIN asgTanks[t]}

\* C5: every entry of the formula with a positive dose is in exactly one
\* tank of the assignment with the same dose; an entry with a zero, negative
\* or missing dose is in no tank; the tanks hold nothing else.
C5_ExactlyOneTank ==
  asgDone =>
    /\ \A i \in 1..Len(asgFormula) :
         LET e == asgFormula[i]
         IN  IF "grams" \in DOMAIN e /\ e.grams > 0
             THEN /\ Cardinality(TanksHolding(e.id)) = 1
                  /\ \A t \in TanksHolding(e.id) : asgTanks[t][e.id] = e.grams
             ELSE TanksHolding(e.id) = {}
    /\ \A t \in DOMAIN asgTanks : \A f \in DOMAIN asgTanks[t] :
         \E i \in 1..Len(asgFormula) : asgFormula[i].id = f

\* A formula with one positive and one zero dose was assigned.
C5_Witness ==
  /\ asgDone
  /\ Len(asgFormula) = 2
  /\ \E i, j \in 1..2 :
       /\ "grams" \in DOMAIN asgFormula[i] /\ asgFormula[i].grams > 0
       /\ TanksHolding(asgFormula[i].id) # {}
       /\ "grams" \in DOMAIN asgFormula[j] /\ asgFormula[j].grams = 0

\* C6: a successful plan holds the non-empty tanks of its attempt's
\* assignment: at least 1 and at most K <= 4 tanks, none of them empty, and
\* meta.numTanks is the number of tanks of the plan.
C6_TankCount ==
  (pc = "returned" /\ result.success) =>
    /\ numTanks \in {2, 3, 4}
    /\ Cardinality(DOMAIN result.tanks) >= 1
    /\ Cardinality(DOMAIN result.tanks) <= numTanks
    /\ result.meta.numTanks = Cardinality(DOMAIN result.tanks)
    /\ \A t \in DOMAIN result.tanks : DOMAIN result.tanks[t].fertilizers # {}

\* C6 as stated: a successful plan has 2 to 4 tanks and meta.numTanks is
\* 2, 3 or 4.
C6_Original ==
  (pc = "returned" /\ result.success) =>
    /\ Cardinality(DOMAIN result.tanks) >= 2
    /\ Cardinality(DOMAIN result.tanks) <= 4
    /\ result.meta.numTanks \in {2, 3, 4}

\* A plan from a single available fertilizer succeeded with one tank.
C6_Witness ==
  /\ pc = "returned"
  /\ result.success
  /\ options.availableFertilizers = <<"potassium_nitrate_typical">>
  /\ result.meta.numTanks = 1

\* The configuration error a call with these options has, by the order
\* targets, fertilizer list, known fertilizer ids.
ExpectedConfigCode(opts) ==
  IF (IF "targets" \in DOMAIN opts THEN opts.targets = << >> ELSE TRUE)
  THEN "NO_TARGETS"
  ELSE IF (IF "availableFertilizers" \in DOMAIN opts
           THEN opts.availableFertilizers = << >> ELSE TRUE)
  THEN "NO_FERTILIZERS"
  ELSE IF \A i \in 1..Len(opts.availableFertilizers) :
            opts.availableFertilizers[i] \notin FertIds
  THEN "NO_VALID_FERTILIZERS"
  ELSE "none"

\* C7: a call with missing or empty targets, else with a missing or empty
\* fertilizer list, else with only unknown fertilizer ids, returns
\* {success: false} with the one error NO_TARGETS, NO_FERTILIZERS or
\* NO_VALID_FERTILIZERS (the first that applies); it does not throw, starts
\* no attempt and invokes neither the optimizer nor the solver factory.
C7_ConfigurationErrors ==
  (pc # "idle" /\ ExpectedConfigCode(options) # "none") =>
    /\ pc = "returned"
    /\ thrown = NoError
    /\ result = [success |-> FALSE,
                 errors |-> <<[level |-> "error",
                               code |-> ExpectedConfigCode(options)]>>]
    /\ attemptsStarted = << >>
    /\ attemptLog = << >>
    /\ optimizerCalls = 0
    /\ optimizerLog = << >>
    /\ factoryCalls = 0
    /\ highsLoadingPromise = 0

\* A call without targets and with an empty fertilizer list returned
\* NO_TARGETS.
C7_Witness ==
  /\ pc = "returned"
  /\ "targets" \notin DOMAIN options
  /\ "availableFertilizers" \in DOMAIN options
  /\ options.availableFertilizers = << >>
  /\ result.errors[1].code = "NO_TARGETS"

BackendUnavailable ==
  \/ ~lpModel
  \/ ~highsFactory
  \/ IF awaiting # 0 THEN promiseState[awaiting] = "rejected" ELSE FALSE

\* C8: the optimizer has no fallback.  It returns a formula only with the LP
\* model library loaded and a solver instance cached; without the library or
\* without the solver factory its first invocation throws and the call
\* rejects with that error, and a call that has thrown has returned nothing.
C8_NoFallback ==
  /\ \A i \in 1..Len(optimizerLog) :
       optimizerLog[i] = "formula" =>
         lpModel /\ highsFactory /\ cachedHighsInstance # 0
  /\ (optimizerCalls > 0 /\ ~lpModel) =>
       /\ pc = "thrown"
       /\ thrown = "MILP dependencies not loaded"
       /\ optimizerLog = <<"threw">>
       /\ factoryCalls = 0
  /\ (optimizerCalls > 0 /\ lpModel /\ ~highsFactory) =>
       /\ pc = "thrown"
       /\ thrown = "HiGHS solver not available"
       /\ optimizerLog = <<"threw">>
  /\ pc = "thrown" =>
       /\ thrown # NoError
       /\ result = NoResult
       /\ optimizerLog[Len(optimizerLog)] = "threw"
       /\ Len(attemptLog) = Len(attemptsStarted) - 1

\* C8 as stated: with the backend unavailable every optimizer invocation
\* that has ended returned a formula.
C8_Original ==
  (optimizerCalls > 0 /\ BackendUnavailable /\ pc # "awaitSolver") =>
    /\ optimizerLog # << >>
    /\ \A i \in 1..Len(optimizerLog) : optimizerLog[i] = "formula"

\* The solver initialisation failed and the call rejected.
C8_Witness ==
  /\ pc = "thrown"
  /\ lpModel /\ highsFactory
  /\ awaiting # 0
  /\ promiseState[awaiting] = "rejected"
  /\ optimizerLog = <<"threw">>

NoErrorIn(issues) == \A j \in 1..Len(issues) : issues[j].level # "error"

\* C9: solveDosing reports feasible exactly when its issues hold no error;
\* an attempt succeeds exactly when it produced no error-level issue; a
\* successful plan has no errors and only non-error issues as warnings.
C9_ErrorsDecide ==
  /\ \A i \in 1..Len(dosingResults) :
       dosingResults[i].feasible <=> NoErrorIn(dosingResults[i].issues)
  /\ \A i \in 1..Len(attemptLog) :
       attemptLog[i].success <=> ~attemptLog[i].producedError
  /\ (pc = "returned" /\ result.success) =>
       /\ result.errors = << >>
       /\ NoErrorIn(result.warnings)
       /\ \A i \in 1..Len(result.dosing) : NoErrorIn(result.dosing[i].warnings)

\* A plan succeeded although a target's dosing raised two warnings.
C9_Witness ==
  /\ pc = "returned"
  /\ result.success
  /\ \E i \in 1..Len(dosingResults) :
       /\ dosingResults[i].feasible
       /\ Len(dosingResults[i].issues) = 2
  /\ Len(result.warnings) >= 2

\* C10: the optimizer is invoked once per attempt started, so one to three
\* times in a call that passes the configuration checks, whatever the
\* number of targets; an invocation has ended before the next one starts.
C10_OncePerAttempt ==
  /\ optimizerCalls = Len(attemptsStarted)
  /\ optimizerCalls <= 3
  /\ Len(optimizerLog) <= optimizerCalls
  /\ optimizerCalls <= Len(optimizerLog) + 1
  /\ pc \in {"returned", "thrown"} => Len(optimizerLog) = optimizerCalls
  /\ (pc = "returned" /\ attemptLog # << >>) =>
       optimizerCalls = attemptLog[Len(attemptLog)].numTanks - 1

\* C10 as stated: a call that ran attempts invoked the optimizer exactly
\* once.
C10_Original ==
  (pc = "returned" /\ attemptsStarted # << >>) => optimizerCalls = 1

\* A call with two targets returned after three optimizer invocations.
C10_Witness ==
  /\ pc = "returned"
  /\ attemptsStarted = <<2, 3, 4>>
  /\ Len(options.targets) = 2
  /\ optimizerCalls = 3
  /\ optimizerLog = <<"formula", "formula", "formula">>
\* Calls of optimizeFormula that reached the solver.
ReachedSolver(e) == e.threw \in {"", "MILP solver failed"}

GramsIn(formula, id) == formula[CHOOSE i \in 1..Len(formula) : formula[i].id = id].grams

\* C13: a result of an attempt that contains tanks was built with an
\* effective concentration between 10 and the requested one, each stock
\* being the dose times that concentration and at most 80% of the
\* solubility of its fertilizer; an attempt whose capped concentration is
\* below 10 returns the error CONCENTRATION_TOO_LOW alone, without tanks and
\* without any dosing.
C13_SolubilityCapping ==
  atDone =>
    LET r == atOut.attempt.result
        c == atOut.effectiveConcentration
    IN  /\ "tanks" \in DOMAIN r =>
              /\ c <= atArgs.stockConcentration
              /\ c >= 10
              /\ \A t \in DOMAIN r.tanks : \A f \in DOMAIN r.tanks[t].fertilizers :
                   /\ r.tanks[t].fertilizers[f].grams_per_L = GramsIn(atArgs.formula, f) * c
                   /\ r.tanks[t].fertilizers[f].grams_per_L <= 80 * getSolubility(f)
        /\ c < 10 =>
              /\ r = [success |-> FALSE,
                      errors |-> <<Issue("error", "CONCENTRATION_TOO_LOW")>>]
              /\ atOut.attempt.dosingResults = << >>

\* An attempt returned tanks whose concentration the solubility of a
\* fertilizer capped below the requested one.
C13_Witness ==
  /\ atDone
  /\ "tanks" \in DOMAIN atOut.attempt.result
  /\ atOut.effectiveConcentration < atArgs.stockConcentration
  /\ \E t \in DOMAIN atOut.attempt.result.tanks :
       \E f \in DOMAIN atOut.attempt.result.tanks[t].fertilizers :
         atOut.attempt.result.tanks[t].fertilizers[f].grams_per_L > 70 * getSolubility(f)

(***************************************************************************)
(* solveDosing                                                             *)
(***************************************************************************)
HasIssue(r, level, code) == \E i \in 1..Len(r.issues) : r.issues[i] = Issue(level, code)
HasCode(r, code) == \E i \in 1..Len(r.issues) : r.issues[i].code = code

SdBaseline == IF "baselineEC" \in DOMAIN sdArgs.target THEN sdArgs.target.baselineEC ELSE 0
SdMaxDosing == IF "maxDosing" \in DOMAIN sdArgs.options THEN sdArgs.options.maxDosing ELSE 500
SdTotal == FSum(sdOut.dosing, DOMAIN sdOut.dosing)

\* The call went past both early returns.
ReachedChecks ==
  /\ sdDone
  /\ NonEmptyTankIds(sdArgs.tanks) # << >>
  /\ sdArgs.target.targetEC - SdBaseline > 0

\* |predictedEC - targetEC| / targetEC > 0.05
EcOff ==
  \/ FLess(FMul(<<sdArgs.target.targetEC, 1>>, <<105, 100>>), sdOut.predictedEC)
  \/ FLess(sdOut.predictedEC, FMul(<<sdArgs.target.targetEC, 1>>, <<95, 100>>))

\* C14: in every solveDosing call that reaches the checks, a total dosing
\* above maxDosing gives the error DOSING_EXCEEDS_MAX, a total above 80% of
\* maxDosing and not above maxDosing gives the warning HIGH_DOSING_VOLUME
\* (never both), a ratio that does not match gives the error
\* RATIO_MISMATCH, and a predicted EC more than 5% off the target gives the
\* warning EC_MISMATCH only, which leaves the target feasible.
C14_IssueClassification ==
  ReachedChecks =>
    /\ FLess(<<SdMaxDosing, 1>>, SdTotal) <=> HasIssue(sdOut, "error", "DOSING_EXCEEDS_MAX")
    /\ (/\ ~FLess(<<SdMaxDosing, 1>>, SdTotal)
        /\ FLess(FMul(<<SdMaxDosing, 1>>, <<4, 5>>), SdTotal))
         <=> HasIssue(sdOut, "warning", "HIGH_DOSING_VOLUME")
    /\ ~(HasCode(sdOut, "DOSING_EXCEEDS_MAX") /\ HasCode(sdOut, "HIGH_DOSING_VOLUME"))
    /\ ~sdArgs.num.ratioMatches <=> HasIssue(sdOut, "error", "RATIO_MISMATCH")
    /\ EcOff <=> HasIssue(sdOut, "warning", "EC_MISMATCH")
    /\ ~HasIssue(sdOut, "error", "EC_MISMATCH")
    /\ sdOut.feasible <=>
         ~(FLess(<<SdMaxDosing, 1>>, SdTotal) \/ ~sdArgs.num.ratioMatches)

\* A call with a high total and an EC off the target that stays feasible.
C14_Witness ==
  /\ ReachedChecks
  /\ HasCode(sdOut, "HIGH_DOSING_VOLUME")
  /\ HasCode(sdOut, "EC_MISMATCH")
  /\ sdOut.feasible

\* C19: Phase 2 multiplies the Phase 1 dose of every non-empty tank by
\* (targetEC - baselineEC) / currentEC, so the doses of any two tanks keep
\* the ratio Phase 1 found; with currentEC = 0 the doses are returned as
\* Phase 1 left them.
C19_UniformScaling ==
  ReachedChecks =>
    /\ DOMAIN sdOut.dosing = DOMAIN sdArgs.num.bestDosing
    /\ sdArgs.num.bestDosing # EmptyObj =>
          DOMAIN sdOut.dosing = SeqRange(NonEmptyTankIds(sdArgs.tanks))
    /\ FLess(FZero, sdArgs.num.currentEC) =>
          /\ \A t \in DOMAIN sdOut.dosing :
                sdOut.dosing[t] =
                  FMul(sdArgs.num.bestDosing[t],
                       FDiv(<<sdArgs.target.targetEC - SdBaseline, 1>>, sdArgs.num.currentEC))
          /\ \A t, u \in DOMAIN sdOut.dosing :
                FDiv(sdOut.dosing[t], sdOut.dosing[u])
                  = FDiv(sdArgs.num.bestDosing[t], sdArgs.num.bestDosing[u])
    /\ sdArgs.num.currentEC = FZero => sdOut.dosing = sdArgs.num.bestDosing

\* Three tanks or more with different Phase 1 doses, scaled by a factor
\* other than 1.
C19_Witness ==
  /\ ReachedChecks
  /\ Len(NonEmptyTankIds(sdArgs.tanks)) >= 3
  /\ FLess(FZero, sdArgs.num.currentEC)
  /\ sdArgs.num.currentEC # <<sdArgs.target.targetEC - SdBaseline, 1>>
  /\ sdArgs.num.bestDosing["A"] # sdArgs.num.bestDosing["B"]
  /\ sdOut.dosing["A"] # sdArgs.num.bestDosing["A"]

(***************************************************************************)
(* Targets below their baseline                                            *)
(***************************************************************************)
\* targetEC - baselineEC <= 0
Unachievable(target) == target.targetEC - BaselineOf(target, 0) <= 0

C16_OneInstructionPerTarget ==
  (pc = "returned" /\ "dosing" \in DOMAIN result) =>
    /\ Len(result.dosing) = Len(options.targets)
    /\ \A i \in 1..Len(result.dosing) :
         /\ result.dosing[i].targetId = options.targets[i].id
         /\ result.dosing[i].targetEC = options.targets[i].targetEC
         /\ result.dosing[i].totalDosing_mL_per_L =
              SumOver([t \in DOMAIN result.dosing[i].tanks |->
                         result.dosing[i].tanks[t].mL_per_L],
                      DOMAIN result.dosing[i].tanks)

\* A plan that failed after the dosing step, with two targets of which the
\* first was dosed from two tanks or more and the second was infeasible.
C16_Witness ==
  /\ pc = "returned"
  /\ ~result.success
  /\ "dosing" \in DOMAIN result
  /\ Len(result.dosing) = 2
  /\ Cardinality(DOMAIN result.dosing[1].tanks) >= 2
  /\ result.dosing[1].totalDosing_mL_per_L > 0
  /\ HasError(result.dosing[2].warnings)

(***************************************************************************)
(* The tolerance band of the optimizer                                     *)
(***************************************************************************)
Returned(e) == e.threw = ""
Targeted(e) == {n \in MilpNutrients : FLess(FZero, e.value.targetPPM[n])}

\* The statement of C17 as the specification has it: in every result the
\* optimizer returns, each nutrient with a positive target has
\* |achieved - target| / target <= tolerance.
C17_Original ==
  \A i \in 1..Len(optLog) :
    Returned(optLog[i]) =>
      \A n \in Targeted(optLog[i]) :
        /\ FLeq(tMinus(optLog[i].value.targetPPM, n), optLog[i].value.achieved[n])
        /\ FLeq(optLog[i].value.achieved[n], tPlus(optLog[i].value.targetPPM, n))

\* The candidates supply every targeted nutrient and the solver's doses
\* were all kept in the formula.
SolvedAndKept(e) ==
  /\ MilpFeasible(SeqRange(e.args.availableFertilizers), e.value.targetPPM, e.args.volume)
  /\ MilpProblem(e.args) \in DOMAIN solverMemo
  /\ \A id \in DOMAIN solverMemo[MilpProblem(e.args)].primal :
       \/ solverMemo[MilpProblem(e.args)].primal[id] = 0
       \/ id \in DOMAIN e.value.formula

\* C17: only the lower side of the band is kept.  In a result computed
\* without EC scaling from a point of the LP whose doses were all kept, each
\* nutrient with a positive target has achieved >= target * (1 - tolerance);
\* the excess over target * (1 + tolerance) is not bounded.
C17_LowerSideOnly ==
  \A i \in 1..Len(optLog) :
    (/\ Returned(optLog[i])
     /\ "ecScaling" \notin DOMAIN optLog[i].value
     /\ SolvedAndKept(optLog[i])) =>
      \A n \in Targeted(optLog[i]) :
        FLeq(tMinus(optLog[i].value.targetPPM, n), optLog[i].value.achieved[n])

\* A result without EC scaling whose achieved K2O is above the band while
\* its N is inside.
C17_Witness ==
  \E i \in 1..Len(optLog) :
    /\ Returned(optLog[i])
    /\ "ecScaling" \notin DOMAIN optLog[i].value
    /\ SolvedAndKept(optLog[i])
    /\ {"N_total", "K2O"} \subseteq Targeted(optLog[i])
    /\ FLeq(optLog[i].value.achieved["N_total"], tPlus(optLog[i].value.targetPPM, "N_total"))
    /\ FLess(tPlus(optLog[i].value.targetPPM, "K2O"), optLog[i].value.achieved["K2O"])

(***************************************************************************)
(* Small doses                                                             *)
(***************************************************************************)
\* 1e-4 g
SmallDose == Grams(10)

\* The statement of C18 as the specification has it: every entry of a
\* returned formula is a dose of at least 1e-4 g, with or without a target
\* EC.
C18_Original ==
  \A i \in 1..Len(optLog) :
    Returned(optLog[i]) =>
      \A id \in DOMAIN optLog[i].value.formula :
        FLeq(SmallDose, optLog[i].value.formula[id])

\* C18: the doses of 1e-4 g and below are dropped when the formula is read
\* from the solver's answer, before the EC scaling.  Every entry of a
\* formula returned without EC scaling is above 1e-4 g; every entry of a
\* scaled formula is a dose above 1e-4 g times the factor applied, which
\* may be below 1e-4 g.
C18_FilterBeforeScaling ==
  \A i \in 1..Len(optLog) :
    Returned(optLog[i]) =>
      /\ \A id \in DOMAIN solverMemo[MilpProblem(optLog[i].args)].primal :
           id \in DOMAIN optLog[i].value.formula
             <=> solverMemo[MilpProblem(optLog[i].args)].primal[id] > 10
      /\ "ecScaling" \notin DOMAIN optLog[i].value =>
           \A id \in DOMAIN optLog[i].value.formula :
             FLess(SmallDose, optLog[i].value.formula[id])
      /\ "ecScaling" \in DOMAIN optLog[i].value =>
           \A id \in DOMAIN optLog[i].value.formula :
             /\ optLog[i].value.formula[id] =
                  FMul(Grams(solverMemo[MilpProblem(optLog[i].args)].primal[id]),
                       optLog[i].locals.st.applied)
             /\ FLess(FMul(SmallDose, optLog[i].locals.st.applied),
                      optLog[i].value.formula[id])

\* A formula scaled down to a target EC that keeps a dose below 1e-4 g.
C18_Witness ==
  \E i \in 1..Len(optLog) :
    /\ Returned(optLog[i])
    /\ "ecScaling" \in DOMAIN optLog[i].value
    /\ \E id \in DOMAIN optLog[i].value.formula :
         FLess(optLog[i].value.formula[id], SmallDose)

(***************************************************************************)
(* The EC scaling loop                                                     *)
(***************************************************************************)
HasTargetEC(e) == "targetEC" \in DOMAIN e.args.options /\ e.args.options.targetEC > 0

\* |ec - targetEC| / targetEC < 0.01
Converged(ec, targetEC) ==
  /\ 100 * ec < 101 * targetEC
  /\ 100 * ec > 99 * targetEC

\* The iterations of one call: at most five, none but the last converged,
\* the last converged unless it was the fifth; the first factor is
\* targetEC / originalEC and each further one corrects the previous by
\* targetEC over the estimate it led to; the result is the base formula and
\* the base profile times the factor of the last iteration.
LoopOf(e) ==
  LET st == e.locals.st
      targetEC == e.args.options.targetEC
      last == st.trail[st.iterations]
  IN  /\ st.iterations = Len(st.trail)
      /\ st.iterations >= 1
      /\ st.iterations <= 5
      /\ \A j \in 1..(st.iterations - 1) : ~Converged(st.trail[j].ec, targetEC)
      /\ st.iterations < 5 => Converged(last.ec, targetEC)
      /\ st.trail[1].factor = Frac(targetEC, e.locals.originalEC)
      /\ \A j \in 1..(st.iterations - 1) :
           st.trail[j + 1].factor =
             FMul(st.trail[j].factor, Frac(targetEC, st.trail[j].ec))
      /\ DOMAIN e.value.formula = DOMAIN e.locals.milp.formula
      /\ \A id \in DOMAIN e.value.formula :
           e.value.formula[id] = FMul(e.locals.milp.formula[id], last.factor)
      /\ \A n \in DOMAIN e.value.achieved :
           e.value.achieved[n] = FMul(e.locals.milp.achieved[n], last.factor)
      /\ e.value.ecScaling.achievedEC = last.ec

\* C20: the EC scaling loop runs at most 5 iterations on a base formula,
\* ends at the first iteration whose estimate is within 1% of targetEC, and
\* scales every dose and every achieved value of the base by the one factor
\* of the iteration; a base formula with estimated EC 0 is returned as the
\* solver gave it, without any iteration.
C20_ScalingLoop ==
  \A i \in 1..Len(optLog) :
    (Returned(optLog[i]) /\ HasTargetEC(optLog[i])) =>
      IF optLog[i].locals.originalEC > 0
      THEN LoopOf(optLog[i])
      ELSE /\ optLog[i].locals.st.iterations = 0
           /\ "ecScaling" \notin DOMAIN optLog[i].value
           /\ optLog[i].value.formula = optLog[i].locals.milp.formula
           /\ optLog[i].value.achieved = optLog[i].locals.milp.achieved

\* One call converged in its third iteration and another one, whose base
\* formula had the estimate 0, was not scaled.
C20_Witness ==
  /\ \E i \in 1..Len(optLog) :
       /\ Returned(optLog[i]) /\ HasTargetEC(optLog[i])
       /\ optLog[i].locals.st.iterations = 3
       /\ optLog[i].value.formula # optLog[i].locals.milp.formula
  /\ \E i \in 1..Len(optLog) :
       /\ Returned(optLog[i]) /\ HasTargetEC(optLog[i])
       /\ optLog[i].locals.originalEC = 0

RejectedPromises == {p \in PromiseIds : promiseState[p] = "rejected"}

C29_State ==
  /\ \A p \in RejectedPromises :
       /\ highsLoadingPromise # p
       /\ cachedHighsInstance # p
       /\ p \notin everCached
  /\ \A c \in Callers :
       /\ (callers[c].op = "get" /\ callers[c].promise \in RejectedPromises) =>
            callers[c].pc \in {"waiting", "failed"}
       /\ callers[c].op = "preload" => callers[c].pc # "failed"

C29_Step ==
  /\ \A p \in PromiseIds :
       (promiseState[p] = "pending" /\ promiseState'[p] = "rejected") =>
         /\ highsLoadingPromise' = 0
         /\ cachedHighsInstance' = cachedHighsInstance
         /\ everCached' = everCached
  /\ \A c \in Callers :
       /\ (callers[c].pc = "waiting" /\ callers'[c].pc # "waiting"
           /\ callers[c].promise \in RejectedPromises) =>
            /\ callers'[c].pc = (IF callers[c].op = "get" THEN "failed" ELSE "done")
            /\ UNCHANGED solverVars
       /\ (callers[c].pc = "idle" /\ callers'[c].pc # "idle"
           /\ cachedHighsInstance = 0 /\ highsLoadingPromise = 0) =>
            IF highsFactory
            THEN /\ callers'[c].started
                 /\ callers'[c].pc = "waiting"
                 /\ factoryCalls' = factoryCalls + 1
                 /\ highsLoadingPromise' = callers'[c].promise
                 /\ callers'[c].promise \notin RejectedPromises
                 /\ promiseState'[callers'[c].promise] = "pending"
            ELSE /\ callers'[c].pc = (IF callers'[c].op = "get" THEN "failed" ELSE "done")
                 /\ ~callers'[c].started
                 /\ UNCHANGED solverVars

\* C29: a failed solver initialisation leaves no residue.  When the factory
\* promise rejects, the pending slot is cleared and nothing is cached; every
\* getHighsInstance caller that shared the promise ends with the rejection;
\* the next call that finds neither an instance nor a pending promise invokes
\* the factory afresh.  When the factory is missing the call fails with
\* 'HiGHS solver not available' and the cached / pending state is unchanged.
\* preloadHighsSolver never ends with a rejection in either case.
C29_NoResidueAfterFailure == [](C29_State) /\ [][C29_Step]_vars

\* A getHighsInstance caller shared a rejected promise and failed, and another
\* call then started a fresh initialisation that is now pending.
C29_Witness ==
  \E c, d \in Callers :
    /\ callers[c].op = "get" /\ callers[c].pc = "failed"
    /\ callers[c].promise \in RejectedPromises
    /\ callers[d].started /\ callers[d].promise # callers[c].promise
    /\ highsLoadingPromise = callers[d].promise
    /\ cachedHighsInstance = 0

LastAttempt == attemptsStarted[Len(attemptsStarted)]

\* The formulas the optimizer can return to the attempt with k tanks that
\* agree with the fertilizers in the tanks of res, if res has tanks.
AttemptFormulasFor(opts, k, res) ==
  LET all == {FormulaOf(Candidates(opts, k), primal) :
                primal \in [CandidateIds(opts, k) -> PrimalValues]}
      inTanks == UNION {DOMAIN res.tanks[t].fertilizers : t \in DOMAIN res.tanks}
  IN  IF "tanks" \in DOMAIN res
      THEN {f \in all : {f[i].id : i \in 1..Len(f)} = inTanks}
      ELSE all

\* res is what a single attempt with k tanks can return for opts, from the
\* catalog as loaded.
AttemptReturns(opts, k, res) ==
  \E formula \in AttemptFormulasFor(opts, k, res) :
  \E searches \in [1..Len(opts.targets) -> SearchOutcomes] :
    res = FinishAttempt(k, opts.targets, formula, opts.stockConcentration, 0,
                        searches).result

C28_State ==
  /\ catalog = FERTILIZERS
  /\ pc # "returned" => result = NoResult
  /\ (pc = "returned" /\ attemptsStarted # << >>) =>
       /\ numTanks = LastAttempt
       /\ AttemptReturns(options, LastAttempt, result)

C28_Step ==
  attemptsStarted' # attemptsStarted =>
    /\ attemptsStarted # << >> => options' = options
    /\ catalog' = catalog
    /\ result' = NoResult

\* C28: each K attempt fully replaces the previous one.  The result returned
\* after the Progressive-K loop is what the returned attempt alone produces
\* from the call's options and the catalog as loaded: its tanks, dosing,
\* errors and warnings, with nothing of an earlier failed attempt in it;
\* every attempt starts with the same options (candidate ids and targets)
\* and the same catalog objects.
C28_AttemptReplacesPrevious == [](C28_State) /\ [][C28_Step]_vars

\* A call returned the successful result of a later attempt after an earlier
\* attempt had failed with errors of its own.
C28_Witness ==
  /\ pc = "returned"
  /\ Len(attemptsStarted) >= 2
  /\ attemptLog[1].producedError
  /\ result.success
  /\ result.warnings # << >>

\* Potassium content as K2O above 20 % with no more than 5 % P2O5, from
\* either declaration of the nutrient: the K2O / P2O5 entry or the elemental
\* K / P entry converted to the oxide (hundredths of a percent times 10^5).
DeclaredAbove(pct, oxide, element, factor, limit) ==
  \/ pct[oxide] > limit
  \/ pct[element] * 100000 > limit * factor

PotassiumDominant(fertId) ==
  /\ DeclaredAbove(FindFert(fertId).pct, "K2O", "K", K2O_to_K, 2000)
  /\ ~DeclaredAbove(FindFert(fertId).pct, "P2O5", "P", P2O5_to_P, 500)

\* The tank of the assignment table for a catalog fertilizer.
TableTank(fertId, k) ==
  LET tag == getCompatibilityTag(fertId)
  IN  CASE tag = "calcium"   -> "A"
        [] tag = "phosphate" -> "B"
        [] tag = "sulfate"   -> IF k >= 3 /\ PotassiumDominant(fertId) THEN "C" ELSE "B"
        [] tag = "silicate"  -> IF k = 2 THEN "B" ELSE IF k = 3 THEN "C" ELSE "D"
        [] OTHER             -> IF k >= 3 /\ PotassiumDominant(fertId) THEN "C" ELSE "B"

\* C25: with separateMg off, assignToTanks puts every catalog fertilizer of
\* the formula that has a positive dose in the tank of the assignment table
\* (calcium -> A; phosphate -> B; sulfate -> C when K >= 3 and potassium-
\* dominant, else B; silicate -> the highest tank; neutral potassium-dominant
\* -> C when K >= 3, else B; everything else -> B), potassium-dominance being
\* decided alike from a K2O declaration and from an elemental K declaration.
C25_AssignmentTable ==
  (asgDone /\ ~asgSeparateMg) =>
    \A n \in 1..Len(asgFormula) :
      LET e == asgFormula[n]
      IN  (e.id \in FertIds /\ ~Skipped(e)) =>
            TanksHolding(e.id) = {TableTank(e.id, asgNumTanks)}

\* The optimizer's per-gram contribution as elements per litre: the oxide
\* entries P2O5 and K2O converted, every entry times the volume.
MilpElemental(c, volume) ==
  [N |-> FMul(c.N_total, <<volume, 1>>),
   P |-> FMul(FMul(c.P2O5, Frac(P2O5_to_P, 100000)), <<volume, 1>>),
   K |-> FMul(FMul(c.K2O, Frac(K2O_to_K, 100000)), <<volume, 1>>),
   Ca |-> FMul(c.Ca, <<volume, 1>>),
   Mg |-> FMul(c.Mg, <<volume, 1>>),
   S |-> FMul(c.S, <<volume, 1>>)]

PerLitre(c, volume) == [k \in DOMAIN c |-> FMul(c[k], <<volume, 1>>)]

\* C26: for every catalog fertilizer, those that declare a nutrient in both
\* its oxide and its elemental form included, the per-gram contribution of
\* the optimizer (perGramContrib and the achieved recomputation) is the one
\* of the planner's getElementalContributionPerGram.
C26_SameContribution ==
  cgDone =>
    /\ MilpElemental(cgOut.milp, cgVolume) = cgOut.planner
    /\ PerLitre(cgOut.achieved, cgVolume) = cgOut.planner

SiTargeted == siArgs.targetSi > 0
SiError(r) == FAbsDiff(r.Si, <<siArgs.targetSi, 1>>)

\* C27: with icl_pekacid_pk_acid a candidate and pekacidMaxLimit > 0, the
\* PeKacid dose of the returned formula is at most pekacidMaxLimit * volume,
\* with or without a target EC or an absolute Si target, and every solver
\* call of the optimizeFormula call is given the limit.
C27_PekacidLimit ==
  (siDone /\ siArgs.pekacidMaxLimit > 0) =>
    /\ FLeq(siOut.value.formula.icl_pekacid_pk_acid,
            <<siArgs.pekacidMaxLimit * siArgs.volume, 1>>)
    /\ \A i \in 1..Len(siOut.locals.calls) :
         siOut.locals.calls[i].pekacidMaxLimit = siArgs.pekacidMaxLimit

\* C21: with a target EC and an absolute Si target, optimizeFormula enters
\* at most 5 Si iterations, gives the solver no Si target above 5 times the
\* requested one, and returns the result with the lowest absolute Si error
\* of all EC-scaled results it computed, that of the last re-solve included.
C21_BestSiResult ==
  (siDone /\ SiTargeted /\ "ecScaling" \in DOMAIN siOut.value) =>
    /\ siOut.locals.siIterations <= 5
    /\ Len(siOut.locals.calls) <= 6
    /\ \A i \in 1..Len(siOut.locals.calls) :
         FLeq(siOut.locals.calls[i].Si, <<5 * siArgs.targetSi, 1>>)
    /\ \A i \in 1..Len(siOut.locals.computed) :
         FLeq(SiError(siOut.locals.returned), SiError(siOut.locals.computed[i]))

\* The statement of C22 as the specification has it: the EC / Si loop runs
\* whenever a target EC or an absolute Si target is requested, so that a
\* call with a Si target and no target EC still enters the Si adjustment.
C22_Original ==
  (siDone /\ SiTargeted /\ siArgs.targetEC = 0 /\ siArgs.script.origs[1] > 0) =>
    siOut.locals.siIterations >= 1

\* C22 (as the code has it): the EC scaling loop and the Si adjustment run
\* only when a target EC above 0 is requested and the base formula has a
\* positive EC estimate.  A call without a target EC calls the solver once
\* and returns its formula and profile unscaled, without an ecScaling record
\* and without any Si iteration, whatever its Si target; a call with a
\* target EC, a positive base estimate and a Si target enters the Si
\* adjustment.
C22_LoopNeedsTargetEC ==
  siDone =>
    /\ (siOut.locals.siIterations >= 1 \/ "ecScaling" \in DOMAIN siOut.value
        \/ Len(siOut.locals.calls) > 1) =>
         (siArgs.targetEC > 0 /\ siArgs.script.origs[1] > 0)
    /\ siArgs.targetEC = 0 =>
         /\ siOut.locals.calls = <<InitialCall(siArgs)>>
         /\ siOut.value.formula.icl_pekacid_pk_acid = <<siArgs.script.pek[1], 1>>
         /\ siOut.value.achieved.Si = <<siArgs.targetSi, 1>>
    /\ (siArgs.targetEC > 0 /\ siArgs.script.origs[1] > 0 /\ SiTargeted) =>
         siOut.locals.siIterations >= 1

\* A call with a Si target of 25 ppm and no target EC returned the solver's
\* result after one solver call, without any Si iteration.
C22_Witness ==
  /\ siDone
  /\ SiTargeted /\ siArgs.targetEC = 0 /\ siArgs.script.origs[1] > 0
  /\ Len(siOut.locals.calls) = 1
  /\ siOut.locals.siIterations = 0
  /\ "ecScaling" \notin DOMAIN siOut.value

\* The optimizeFormula call of the standalone solver has returned.
FallbackReturned == nnDone /\ nnOut.call = "optimizeFormula"

\* The solve of the subset search for a combo is within the prune tolerance
\* for every positive-target nutrient.
ComboWithin(combo) ==
  LET rows == RowsAt(nnArgs.matrix, combo)
      target == nnArgs.targetVector
      solution == solveNonNegativeLeastSquares(rows, target, <<2000, 1>>,
                    SquaredWeights(target), nnArgs.answers[combo])
      achievedVec == computeAchieved(rows, solution.x, Len(target))
  IN  \A j \in 1..Len(target) :
        target[j] > 0 => FLeq(RelDiff(achievedVec, target, j), nnArgs.pruneTolerance)

\* The sizes that have a subset within tolerance, and the fertilizers the
\* solve of a combo uses.
FeasibleSizes ==
  {size \in 1..MaxComboSize :
     /\ size <= Len(nnArgs.matrix)
     /\ \E k \in 1..Len(Combos(1, size, Len(nnArgs.matrix))) :
          ComboWithin(Combos(1, size, Len(nnArgs.matrix))[k])}

\* C23: for at most 8 candidates the subset search of the standalone solver
\* examines the sizes 1, 2, 3, 4 (at most the number of candidates) in that
\* order, stops before the last size only at a size that has a subset
\* within tolerance for every positive-target nutrient, and whenever some
\* size has such a subset the formula returned is a within-tolerance subset
\* of the smallest such size, taken from the search.
C23_SmallestWithinSubset ==
  (FallbackReturned /\ Len(nnArgs.matrix) <= ExhaustiveLimit) =>
    LET sizes == nnOut.locals.sizes
        last == sizes[Len(sizes)]
        bestWithin == nnOut.locals.bestWithin
    IN  /\ Len(sizes) >= 1
        /\ sizes = [k \in 1..Len(sizes) |-> k]
        /\ (last < MaxComboSize /\ last < Len(nnArgs.matrix)) => last \in FeasibleSizes
        /\ FeasibleSizes # {} =>
             /\ bestWithin # << >>
             /\ \A size \in FeasibleSizes : Len(bestWithin[1].sol.indices) <= size
             /\ ~nnOut.locals.pruneCalled

\* the solution of a pruning is within the numeric tolerance
SolutionWithin(x) ==
  LET target == nnArgs.targetVector
      achieved == computeAchieved(nnArgs.matrix, x, Len(target))
  IN  \A j \in 1..Len(target) :
        target[j] > 0 => FLeq(RelDiff(achieved, target, j), nnArgs.pruneTolerance)

\* C24: in the standalone solver a pruning round removes an active
\* fertilizer only when the re-solved reduced solution keeps every
\* positive-target nutrient within the prune tolerance; every round removes
\* exactly one fertilizer, the last active fertilizer stays, and without a
\* tolerable removal the base solution is returned unchanged.
C24_PruneKeepsTolerance ==
  (FallbackReturned /\ nnOut.locals.pruneCalled) =>
    LET rounds == nnOut.locals.rounds
        base == nnOut.locals.baseSolution
        pruned == nnOut.locals.pruned
        before == [k \in 1..Len(rounds) |->
                     IF k = 1 THEN ActiveIndices(base.x) ELSE rounds[k - 1]]
    IN  /\ rounds # << >> => SolutionWithin(pruned.x)
        /\ \A k \in 1..Len(rounds) :
             /\ Len(rounds[k]) = Len(before[k]) - 1
             /\ Len(rounds[k]) >= 1
        /\ rounds = << >> => (pruned.x = base.x /\ pruned.error = base.error)

====
